---- MODULE Spec2Model ----
(***************************************************************************)
(* A model of the desktop-apps-launcher MCP server: the tool dispatcher,   *)
(* the start/stop handlers and the path resolver, in the two copies of     *)
(* the program that the repository holds that the claims cite most         *)
(* (src/src/index.ts lines 426-1062, "index_ts", and the compiled          *)
(* src/unnamed/part_000, "part_000"), the first copy of the program        *)
(* (src/src/index.ts lines 1-425, "index_v1"), and the process registry    *)
(* that the specification describes (build "registry").                    *)
(*                                                                         *)
(* A JavaScript string is a sequence of one-character strings, so that     *)
(* toLowerCase, includes, endsWith, replace and the template literals are  *)
(* computed and not assumed.  An optional value (undefined or a value) is  *)
(* the empty set or a singleton.                                           *)
(***************************************************************************)
EXTENDS Integers, Sequences, FiniteSets, TLC

\* The string literals of the sources and of the properties, spelled out
\* character by character.
S ==
    (".app" :> <<".", "a", "p", "p">>) @@
    (" " :> <<" ">>) @@
    ("darwin" :> <<"d", "a", "r", "w", "i", "n">>) @@
    ("win32" :> <<"w", "i", "n", "3", "2">>) @@
    ("linux" :> <<"l", "i", "n", "u", "x">>) @@
    ("freebsd" :> <<"f", "r", "e", "e", "b", "s", "d">>) @@
    ("desktop-crawler" :> <<"d", "e", "s", "k", "t", "o", "p", "-", "c", "r", "a", "w",
         "l", "e", "r">>) @@
    ("Desktop Crawler" :> <<"D", "e", "s", "k", "t", "o", "p", " ", "C", "r", "a", "w",
         "l", "e", "r">>) @@
    ("/Applications/Desktop Crawler.app/Contents/MacOS/Desktop Crawler" :> <<"/", "A",
         "p", "p", "l", "i", "c", "a", "t", "i", "o", "n", "s", "/", "D", "e", "s", "k",
         "t", "o", "p", " ", "C", "r", "a", "w", "l", "e", "r", ".", "a", "p", "p", "/",
         "C", "o", "n", "t", "e", "n", "t", "s", "/", "M", "a", "c", "O", "S", "/", "D",
         "e", "s", "k", "t", "o", "p", " ", "C", "r", "a", "w", "l", "e", "r">>) @@
    ("C:\\Program Files\\Desktop Crawler\\Desktop Crawler.exe" :> <<"C", ":", "\\", "P",
         "r", "o", "g", "r", "a", "m", " ", "F", "i", "l", "e", "s", "\\", "D", "e", "s",
         "k", "t", "o", "p", " ", "C", "r", "a", "w", "l", "e", "r", "\\", "D", "e", "s",
         "k", "t", "o", "p", " ", "C", "r", "a", "w", "l", "e", "r", ".", "e", "x",
         "e">>) @@
    ("/usr/local/bin/desktop-crawler" :> <<"/", "u", "s", "r", "/", "l", "o", "c", "a",
         "l", "/", "b", "i", "n", "/", "d", "e", "s", "k", "t", "o", "p", "-", "c", "r",
         "a", "w", "l", "e", "r">>) @@
    ("--headless" :> <<"-", "-", "h", "e", "a", "d", "l", "e", "s", "s">>) @@
    ("--firecrawl-headless" :> <<"-", "-", "f", "i", "r", "e", "c", "r", "a", "w", "l",
         "-", "h", "e", "a", "d", "l", "e", "s", "s">>) @@
    ("--stop" :> <<"-", "-", "s", "t", "o", "p">>) @@
    ("electron" :> <<"e", "l", "e", "c", "t", "r", "o", "n">>) @@
    ("/Applications/" :> <<"/", "A", "p", "p", "l", "i", "c", "a", "t", "i", "o", "n",
         "s", "/">>) @@
    ("/Contents/MacOS/" :> <<"/", "C", "o", "n", "t", "e", "n", "t", "s", "/", "M", "a",
         "c", "O", "S", "/">>) @@
    ("C:\\Program Files\\" :> <<"C", ":", "\\", "P", "r", "o", "g", "r", "a", "m", " ",
         "F", "i", "l", "e", "s", "\\">>) @@
    ("\\" :> <<"\\">>) @@
    (".exe" :> <<".", "e", "x", "e">>) @@
    ("/usr/local/bin/" :> <<"/", "u", "s", "r", "/", "l", "o", "c", "a", "l", "/", "b",
         "i", "n", "/">>) @@
    ("Unsupported platform: " :> <<"U", "n", "s", "u", "p", "p", "o", "r", "t", "e", "d",
         " ", "p", "l", "a", "t", "f", "o", "r", "m", ":", " ">>) @@
    ("/bin/sh" :> <<"/", "b", "i", "n", "/", "s", "h">>) @@
    ("spawn " :> <<"s", "p", "a", "w", "n", " ">>) @@
    ("ENOENT" :> <<"E", "N", "O", "E", "N", "T">>) @@
    ("--quit" :> <<"-", "-", "q", "u", "i", "t">>) @@
    (" stopped successfully" :> <<" ", "s", "t", "o", "p", "p", "e", "d", " ", "s", "u",
         "c", "c", "e", "s", "s", "f", "u", "l", "l", "y">>) @@
    (" started successfully" :> <<" ", "s", "t", "a", "r", "t", "e", "d", " ", "s", "u",
         "c", "c", "e", "s", "s", "f", "u", "l", "l", "y">>) @@
    ("Failed to stop " :> <<"F", "a", "i", "l", "e", "d", " ", "t", "o", " ", "s", "t",
         "o", "p", " ">>) @@
    ("Failed to start " :> <<"F", "a", "i", "l", "e", "d", " ", "t", "o", " ", "s", "t",
         "a", "r", "t", " ">>) @@
    ("Failed to stop application: " :> <<"F", "a", "i", "l", "e", "d", " ", "t", "o",
         " ", "s", "t", "o", "p", " ", "a", "p", "p", "l", "i", "c", "a", "t", "i", "o",
         "n", ":", " ">>) @@
    ("Failed to start application: " :> <<"F", "a", "i", "l", "e", "d", " ", "t", "o",
         " ", "s", "t", "a", "r", "t", " ", "a", "p", "p", "l", "i", "c", "a", "t", "i",
         "o", "n", ":", " ">>) @@
    ("pkill" :> <<"p", "k", "i", "l", "l">>) @@
    ("-f" :> <<"-", "f">>) @@
    (": " :> <<":", " ">>) @@
    ("No running processes found for " :> <<"N", "o", " ", "r", "u", "n", "n", "i", "n",
         "g", " ", "p", "r", "o", "c", "e", "s", "s", "e", "s", " ", "f", "o", "u", "n",
         "d", " ", "f", "o", "r", " ">>) @@
    ("Application " :> <<"A", "p", "p", "l", "i", "c", "a", "t", "i", "o", "n", " ">>) @@
    (" stopped using pkill" :> <<" ", "s", "t", "o", "p", "p", "e", "d", " ", "u", "s",
         "i", "n", "g", " ", "p", "k", "i", "l", "l">>) @@
    ("Invalid arguments: " :> <<"I", "n", "v", "a", "l", "i", "d", " ", "a", "r", "g",
         "u", "m", "e", "n", "t", "s", ":", " ">>) @@
    ("Error: " :> <<"E", "r", "r", "o", "r", ":", " ">>) @@
    ("Arguments are required" :> <<"A", "r", "g", "u", "m", "e", "n", "t", "s", " ", "a",
         "r", "e", " ", "r", "e", "q", "u", "i", "r", "e", "d">>) @@
    ("Unknown tool: " :> <<"U", "n", "k", "n", "o", "w", "n", " ", "t", "o", "o", "l",
         ":", " ">>) @@
    ("/Applications/Desktop Crawler.app/Contents/MacOS/Desktop Crawler --stop" :> <<"/",
         "A", "p", "p", "l", "i", "c", "a", "t", "i", "o", "n", "s", "/", "D", "e", "s",
         "k", "t", "o", "p", " ", "C", "r", "a", "w", "l", "e", "r", ".", "a", "p", "p",
         "/", "C", "o", "n", "t", "e", "n", "t", "s", "/", "M", "a", "c", "O", "S", "/",
         "D", "e", "s", "k", "t", "o", "p", " ", "C", "r", "a", "w", "l", "e", "r", " ",
         "-", "-", "s", "t", "o", "p">>) @@
    ("\"C:\\Program Files\\Desktop Crawler\\Desktop Crawler.exe\" --stop" :> <<"\"", "C",
         ":", "\\", "P", "r", "o", "g", "r", "a", "m", " ", "F", "i", "l", "e", "s",
         "\\", "D", "e", "s", "k", "t", "o", "p", " ", "C", "r", "a", "w", "l", "e", "r",
         "\\", "D", "e", "s", "k", "t", "o", "p", " ", "C", "r", "a", "w", "l", "e", "r",
         ".", "e", "x", "e", "\"", " ", "-", "-", "s", "t", "o", "p">>) @@
    ("/usr/local/bin/desktop-crawler --stop" :> <<"/", "u", "s", "r", "/", "l", "o", "c",
         "a", "l", "/", "b", "i", "n", "/", "d", "e", "s", "k", "t", "o", "p", "-", "c",
         "r", "a", "w", "l", "e", "r", " ", "-", "-", "s", "t", "o", "p">>) @@
    ("firecrawl" :> <<"f", "i", "r", "e", "c", "r", "a", "w", "l">>) @@
    ("/" :> <<"/">>) @@
    ("\"" :> <<"\"">>) @@
    ("/Applications" :> <<"/", "A", "p", "p", "l", "i", "c", "a", "t", "i", "o", "n",
         "s">>) @@
    ("Contents/MacOS" :> <<"C", "o", "n", "t", "e", "n", "t", "s", "/", "M", "a", "c",
         "O", "S">>) @@
    ("Firecrawl" :> <<"F", "i", "r", "e", "c", "r", "a", "w", "l">>) @@
    (" with configured settings" :> <<" ", "w", "i", "t", "h", " ", "c", "o", "n", "f",
         "i", "g", "u", "r", "e", "d", " ", "s", "e", "t", "t", "i", "n", "g", "s">>) @@
    (" with arguments: " :> <<" ", "w", "i", "t", "h", " ", "a", "r", "g", "u", "m", "e",
         "n", "t", "s", ":", " ">>) @@
    (" --" :> <<" ", "-", "-">>) @@
    ("--" :> <<"-", "-">>) @@
    ("pkill -f " :> <<"p", "k", "i", "l", "l", " ", "-", "f", " ">>) @@
    ("Command failed: " :> <<"C", "o", "m", "m", "a", "n", "d", " ", "f", "a", "i", "l",
         "e", "d", ":", " ">>) @@
    (" using configured command" :> <<" ", "u", "s", "i", "n", "g", " ", "c", "o", "n",
         "f", "i", "g", "u", "r", "e", "d", " ", "c", "o", "m", "m", "a", "n", "d">>) @@
    (" --stop" :> <<" ", "-", "-", "s", "t", "o", "p">>) @@
    ("Command: " :> <<"C", "o", "m", "m", "a", "n", "d", ":", " ">>) @@
    ("Starting application: " :> <<"S", "t", "a", "r", "t", "i", "n", "g", " ", "a", "p",
         "p", "l", "i", "c", "a", "t", "i", "o", "n", ":", " ">>) @@
    ("Starting " :> <<"S", "t", "a", "r", "t", "i", "n", "g", " ">>) @@
    ("Stopping " :> <<"S", "t", "o", "p", "p", "i", "n", "g", " ">>) @@
    (" with configured command" :> <<" ", "w", "i", "t", "h", " ", "c", "o", "n", "f",
         "i", "g", "u", "r", "e", "d", " ", "c", "o", "m", "m", "a", "n", "d">>) @@
    ("Invalid arguments" :> <<"I", "n", "v", "a", "l", "i", "d", " ", "a", "r", "g", "u",
         "m", "e", "n", "t", "s">>) @@
    ("Ab" :> <<"A", "b">>) @@
    ("ab" :> <<"a", "b">>) @@
    ("A b" :> <<"A", " ", "b">>) @@
    ("Ab.app" :> <<"A", "b", ".", "a", "p", "p">>) @@
    ("Desktop-Crawler" :> <<"D", "e", "s", "k", "t", "o", "p", "-", "C", "r", "a", "w",
         "l", "e", "r">>) @@
    ("--x" :> <<"-", "-", "x">>) @@
    (" (PID: " :> <<" ", "(", "P", "I", "D", ":", " ">>) @@
    (")" :> <<")">>) @@
    ("a b" :> <<"a", " ", "b">>) @@
    ("/Applications/Ab.app/Contents/MacOS/Ab" :> <<"/", "A", "p", "p", "l", "i", "c",
         "a", "t", "i", "o", "n", "s", "/", "A", "b", ".", "a", "p", "p", "/", "C", "o",
         "n", "t", "e", "n", "t", "s", "/", "M", "a", "c", "O", "S", "/", "A", "b">>) @@
    ("/Applications/ab.app/Contents/MacOS/ab" :> <<"/", "A", "p", "p", "l", "i", "c",
         "a", "t", "i", "o", "n", "s", "/", "a", "b", ".", "a", "p", "p", "/", "C", "o",
         "n", "t", "e", "n", "t", "s", "/", "M", "a", "c", "O", "S", "/", "a", "b">>) @@
    ("/Applications/A b.app/Contents/MacOS/A b" :> <<"/", "A", "p", "p", "l", "i", "c",
         "a", "t", "i", "o", "n", "s", "/", "A", " ", "b", ".", "a", "p", "p", "/", "C",
         "o", "n", "t", "e", "n", "t", "s", "/", "M", "a", "c", "O", "S", "/", "A", " ",
         "b">>) @@
    ("/Applications/Ab.app.app/Contents/MacOS/Ab.app" :> <<"/", "A", "p", "p", "l", "i",
         "c", "a", "t", "i", "o", "n", "s", "/", "A", "b", ".", "a", "p", "p", ".", "a",
         "p", "p", "/", "C", "o", "n", "t", "e", "n", "t", "s", "/", "M", "a", "c", "O",
         "S", "/", "A", "b", ".", "a", "p", "p">>) @@
    ("/Applications/firecrawl.app/Contents/MacOS/firecrawl" :> <<"/", "A", "p", "p", "l",
         "i", "c", "a", "t", "i", "o", "n", "s", "/", "f", "i", "r", "e", "c", "r", "a",
         "w", "l", ".", "a", "p", "p", "/", "C", "o", "n", "t", "e", "n", "t", "s", "/",
         "M", "a", "c", "O", "S", "/", "f", "i", "r", "e", "c", "r", "a", "w", "l">>) @@
    ("C:\\Program Files\\Ab\\Ab.exe" :> <<"C", ":", "\\", "P", "r", "o", "g", "r", "a",
         "m", " ", "F", "i", "l", "e", "s", "\\", "A", "b", "\\", "A", "b", ".", "e",
         "x", "e">>) @@
    ("C:\\Program Files\\ab\\ab.exe" :> <<"C", ":", "\\", "P", "r", "o", "g", "r", "a",
         "m", " ", "F", "i", "l", "e", "s", "\\", "a", "b", "\\", "a", "b", ".", "e",
         "x", "e">>) @@
    ("C:\\Program Files\\A b\\A b.exe" :> <<"C", ":", "\\", "P", "r", "o", "g", "r", "a",
         "m", " ", "F", "i", "l", "e", "s", "\\", "A", " ", "b", "\\", "A", " ", "b",
         ".", "e", "x", "e">>) @@
    ("C:\\Program Files\\Ab.app\\Ab.app.exe" :> <<"C", ":", "\\", "P", "r", "o", "g",
         "r", "a", "m", " ", "F", "i", "l", "e", "s", "\\", "A", "b", ".", "a", "p", "p",
         "\\", "A", "b", ".", "a", "p", "p", ".", "e", "x", "e">>) @@
    ("C:\\Program Files\\firecrawl\\firecrawl.exe" :> <<"C", ":", "\\", "P", "r", "o",
         "g", "r", "a", "m", " ", "F", "i", "l", "e", "s", "\\", "f", "i", "r", "e", "c",
         "r", "a", "w", "l", "\\", "f", "i", "r", "e", "c", "r", "a", "w", "l", ".", "e",
         "x", "e">>) @@
    ("/usr/local/bin/ab" :> <<"/", "u", "s", "r", "/", "l", "o", "c", "a", "l", "/", "b",
         "i", "n", "/", "a", "b">>) @@
    ("/usr/local/bin/a b" :> <<"/", "u", "s", "r", "/", "l", "o", "c", "a", "l", "/",
         "b", "i", "n", "/", "a", " ", "b">>) @@
    ("/usr/local/bin/ab.app" :> <<"/", "u", "s", "r", "/", "l", "o", "c", "a", "l", "/",
         "b", "i", "n", "/", "a", "b", ".", "a", "p", "p">>) @@
    ("/usr/local/bin/firecrawl" :> <<"/", "u", "s", "r", "/", "l", "o", "c", "a", "l",
         "/", "b", "i", "n", "/", "f", "i", "r", "e", "c", "r", "a", "w", "l">>) @@
    (" ENOENT" :> <<" ", "E", "N", "O", "E", "N", "T">>) @@
    ("Failed to start application: spawn /bin/sh ENOENT" :> <<"F", "a", "i", "l", "e",
         "d", " ", "t", "o", " ", "s", "t", "a", "r", "t", " ", "a", "p", "p", "l", "i",
         "c", "a", "t", "i", "o", "n", ":", " ", "s", "p", "a", "w", "n", " ", "/", "b",
         "i", "n", "/", "s", "h", " ", "E", "N", "O", "E", "N", "T">>) @@
    ("AB" :> <<"A", "B">>) @@
    ("DESKTOP-CRAWLER" :> <<"D", "E", "S", "K", "T", "O", "P", "-", "C", "R", "A", "W",
         "L", "E", "R">>) @@
    ("FIRECRAWL" :> <<"F", "I", "R", "E", "C", "R", "A", "W", "L">>) @@
    ("1" :> <<"1">>) @@
    ("2" :> <<"2">>) @@
    ("3" :> <<"3">>) @@
    ("4" :> <<"4">>) @@
    ("5" :> <<"5">>) @@
    (" stopped successfully (PID: " :> <<" ", "s", "t", "o", "p", "p", "e", "d", " ",
         "s", "u", "c", "c", "e", "s", "s", "f", "u", "l", "l", "y", " ", "(", "P", "I",
         "D", ":", " ">>) @@
    ("A b stopped successfully (PID: 1)" :> <<"A", " ", "b", " ", "s", "t", "o", "p",
         "p", "e", "d", " ", "s", "u", "c", "c", "e", "s", "s", "f", "u", "l", "l", "y",
         " ", "(", "P", "I", "D", ":", " ", "1", ")">>) @@
    ("start_app" :> <<"s", "t", "a", "r", "t", "_", "a", "p", "p">>) @@
    ("stop_app" :> <<"s", "t", "o", "p", "_", "a", "p", "p">>) @@
    ("start_firecrawl" :> <<"s", "t", "a", "r", "t", "_", "f", "i", "r", "e", "c", "r",
         "a", "w", "l">>) @@
    ("stop_firecrawl" :> <<"s", "t", "o", "p", "_", "f", "i", "r", "e", "c", "r", "a",
         "w", "l">>) @@
    ("list_configured_apps" :> <<"l", "i", "s", "t", "_", "c", "o", "n", "f", "i", "g",
         "u", "r", "e", "d", "_", "a", "p", "p", "s">>) @@
    ("list_running_apps" :> <<"l", "i", "s", "t", "_", "r", "u", "n", "n", "i", "n", "g",
         "_", "a", "p", "p", "s">>) @@
    ("list_applications" :> <<"l", "i", "s", "t", "_", "a", "p", "p", "l", "i", "c", "a",
         "t", "i", "o", "n", "s">>)

-----------------------------------------------------------------------------
(* JavaScript values and string methods *)

\* undefined, and a defined value
undefined == {}
Some(v) == {v}
TheValue(opt) == CHOOSE v \in opt : TRUE

\* Array.prototype.concat / template-literal concatenation of several strings
RECURSIVE Concat(_)
Concat(parts) ==
    IF parts = <<>> THEN <<>> ELSE Head(parts) \o Concat(Tail(parts))

UpperCaseLetters ==
    <<"A", "B", "C", "D", "E", "F", "G", "H", "I", "J", "K", "L", "M",
      "N", "O", "P", "Q", "R", "S", "T", "U", "V", "W", "X", "Y", "Z">>
LowerCaseLetters ==
    <<"a", "b", "c", "d", "e", "f", "g", "h", "i", "j", "k", "l", "m",
      "n", "o", "p", "q", "r", "s", "t", "u", "v", "w", "x", "y", "z">>

ToLowerChar(c) ==
    IF \E i \in 1..26 : UpperCaseLetters[i] = c
    THEN LowerCaseLetters[CHOOSE i \in 1..26 : UpperCaseLetters[i] = c]
    ELSE c

\* String.prototype.toLowerCase
toLowerCase(s) == [i \in 1..Len(s) |-> ToLowerChar(s[i])]

\* String.prototype.includes
includes(s, sub) ==
    \E i \in 0..(Len(s) - Len(sub)) : SubSeq(s, i + 1, i + Len(sub)) = sub

\* String.prototype.endsWith
endsWith(s, suf) ==
    /\ Len(suf) <= Len(s)
    /\ SubSeq(s, Len(s) - Len(suf) + 1, Len(s)) = suf

\* s.replace(/\.app$/, '')
replaceDotApp(s) ==
    IF endsWith(s, S[".app"]) THEN SubSeq(s, 1, Len(s) - 4) ELSE s

\* Array.prototype.join(' ')
RECURSIVE joinSpace(_)
joinSpace(arr) ==
    IF arr = <<>> THEN <<>>
    ELSE IF Len(arr) = 1 THEN arr[1]
    ELSE Concat(<<arr[1], S[" "], joinSpace(Tail(arr))>>)

\* A value returned, or an Error thrown with a message (and perhaps a code)
Return(v) == [ok |-> TRUE, val |-> v, message |-> <<>>]
Throw(msg) == [ok |-> FALSE, val |-> <<>>, message |-> msg]

-----------------------------------------------------------------------------
(* The environment and the program state *)

VARIABLES
    build,      \* which copy of the program runs
    platform,   \* os.platform()
    nodeEnv,    \* process.env.NODE_ENV === 'development'
    reqs,       \* the tool invocations in flight, by slot
    registry,   \* the Process Registry
    nextPid,    \* the process id the operating system hands out next
    profiles,   \* the APP_CONFIGS object of part_000, as it stands
    started     \* the names start_app was invoked with earlier in the session

vars == <<build, platform, nodeEnv, reqs, registry, nextPid, profiles, started>>

Platforms == {S["darwin"], S["win32"], S["linux"], S["freebsd"]}

-----------------------------------------------------------------------------
(* part_000: the application profiles and the path resolver *)

APP_CONFIGS ==
    (S["desktop-crawler"] :>
        [id          |-> S["desktop-crawler"],
         displayName |-> S["Desktop Crawler"],
         execPath    |->
            (S["darwin"] :> S["/Applications/Desktop Crawler.app/Contents/MacOS/Desktop Crawler"]) @@
            (S["win32"]  :> S["C:\\Program Files\\Desktop Crawler\\Desktop Crawler.exe"]) @@
            (S["linux"]  :> S["/usr/local/bin/desktop-crawler"]),
         startArgs   |-> <<S["--headless"], S["--firecrawl-headless"]>>,
         stopArgs    |-> <<S["--headless"], S["--stop"]>>])

\* APP_CONFIGS[key]: the profile, or undefined
ConfigFor(key) ==
    IF key \in DOMAIN profiles THEN Some(profiles[key]) ELSE undefined

\* getExecutablePath with the linux pattern keeping the name's case
getExecutablePath_KeepsCase(appName, config, plat, dev) ==
    IF dev THEN Return(S["electron"])
    ELSE IF config # undefined /\ plat \in DOMAIN TheValue(config).execPath
    THEN Return(TheValue(config).execPath[plat])
    ELSE IF plat = S["darwin"]
    THEN Return(Concat(<<S["/Applications/"], appName, S[".app"],
                         S["/Contents/MacOS/"], appName>>))
    ELSE IF plat = S["win32"]
    THEN Return(Concat(<<S["C:\\Program Files\\"], appName, S["\\"], appName,
                         S[".exe"]>>))
    ELSE IF plat = S["linux"]
    THEN Return(S["/usr/local/bin/"] \o appName)
    ELSE Throw(S["Unsupported platform: "] \o plat)

\* getExecutablePath(appName, config) on platform plat, with NODE_ENV
\* 'development' or not
getExecutablePath(appName, config, plat, dev) ==
    IF dev THEN Return(S["electron"])
    ELSE IF config # undefined /\ plat \in DOMAIN TheValue(config).execPath
    THEN Return(TheValue(config).execPath[plat])
    ELSE IF plat = S["darwin"]
    THEN Return(Concat(<<S["/Applications/"], appName, S[".app"],
                         S["/Contents/MacOS/"], appName>>))
    ELSE IF plat = S["win32"]
    THEN Return(Concat(<<S["C:\\Program Files\\"], appName, S["\\"], appName,
                         S[".exe"]>>))
    ELSE IF plat = S["linux"]
    THEN Return(S["/usr/local/bin/"] \o toLowerCase(appName))
    ELSE Throw(S["Unsupported platform: "] \o plat)

-----------------------------------------------------------------------------
(* A tool invocation: the request, the handler's locals, the child         *)
(* processes it spawned, the events it has seen and its response           *)

IdleReq ==
    [pc            |-> "idle",
     tool          |-> "",         \* request.params.name
     hasArguments  |-> FALSE,      \* request.params.arguments is an object
     appName       |-> undefined,  \* arguments.appName
     args          |-> undefined,  \* arguments.args, when an array of strings
     argsMalformed |-> FALSE,      \* arguments.args is given and is no such array
     name          |-> <<>>,       \* the handler's appName parameter
     isStop        |-> FALSE,
     displayName   |-> <<>>,
     execPath      |-> undefined,  \* the handler's execPath, once resolved
     spawnArgs     |-> undefined,  \* the handler's args, once chosen
     okMessage     |-> <<>>,       \* what the window's timer resolves with
     caught        |-> <<>>,       \* error.message of the error the catch holds
     children      |-> <<>>,
     events        |-> <<>>,
     stdout        |-> <<>>,       \* what console.log wrote to process.stdout
     pid           |-> 0,          \* the process id of the child that is tracked
     response      |-> undefined]

\* What child_process.spawn / exec was called with
Child(api, command, args, shell, detached, unref) ==
    [api |-> api, command |-> command, args |-> args, shell |-> shell,
     detached |-> detached, unref |-> unref]

\* A tool result {success, message} and a protocol error {isError, text}
Result(success, message) ==
    [isError |-> FALSE, success |-> success, message |-> message,
     list |-> <<>>]
ErrorResponse(text) ==
    [isError |-> TRUE, success |-> FALSE, message |-> text, list |-> <<>>]
ListResult(items) ==
    [isError |-> FALSE, success |-> TRUE, message |-> <<>>, list |-> items]

Finish(req, resp) == [req EXCEPT !.pc = "done", !.response = Some(resp)]

\* The file the operating system is asked to execute for a child
SpawnFile(child) == IF child.shell THEN S["/bin/sh"] ELSE child.command

\* The command line that the shell is handed for a child that goes through
\* it: spawn(command, args, {shell: true}) joins the command and its
\* arguments with spaces and quotes nothing; exec(command) hands the string
\* over as it is written
ShellCommandLine(child) ==
    IF child.api = "exec" THEN child.command
    ELSE joinSpace(<<child.command>> \o child.args)

\* The first word of a command line from position i on, as the shell splits
\* it: a space ends the word unless it stands between double quotes, and
\* the quotes are taken off
RECURSIVE FirstWordFrom(_, _, _)
FirstWordFrom(line, i, quoted) ==
    IF i > Len(line) THEN <<>>
    ELSE IF line[i] = "\"" THEN FirstWordFrom(line, i + 1, ~quoted)
    ELSE IF line[i] = " " /\ ~quoted THEN <<>>
    ELSE <<line[i]>> \o FirstWordFrom(line, i + 1, quoted)

\* The program that the shell executes for the child: the first word of its
\* command line
ShellProgram(child) == FirstWordFrom(ShellCommandLine(child), 1, FALSE)

\* The 'error' event's error of a child that could not be spawned
SpawnErrorMessage(child) ==
    Concat(<<S["spawn "], SpawnFile(child), S[" "], S["ENOENT"]>>)
\* error.code of that error is the string 'ENOENT'; === compares the types
\* of its operands before their values
SpawnErrorCode == [type |-> "string", string |-> S["ENOENT"], number |-> 0]
Number(n) == [type |-> "number", string |-> <<>>, number |-> n]
StrictEquals(a, b) ==
    a.type = b.type /\ a.string = b.string /\ a.number = b.number

-----------------------------------------------------------------------------
(* part_000: launchAppProcess *)

\* execPath derived by convention also when the profile has an override
launchExecPath_Convention(config, appName) ==
    IF config # undefined
    THEN getExecutablePath(TheValue(config).displayName, undefined, platform,
                           nodeEnv = "development")
    ELSE getExecutablePath(appName, undefined, platform,
                           nodeEnv = "development")

\* line 124 and line 131: execPath, returned or thrown
launchExecPath(config, appName) ==
    IF config # undefined
    THEN getExecutablePath(TheValue(config).displayName, config, platform,
                           nodeEnv = "development")
    ELSE getExecutablePath(appName, undefined, platform,
                           nodeEnv = "development")

\* args with the profile's defaults kept in front of the caller's list
launchArgs_Appending(config, isStop, customArgs) ==
    IF config # undefined
    THEN IF customArgs # undefined
         THEN (IF isStop THEN TheValue(config).stopArgs
               ELSE TheValue(config).startArgs) \o TheValue(customArgs)
         ELSE IF isStop THEN TheValue(config).stopArgs
         ELSE TheValue(config).startArgs
    ELSE IF customArgs # undefined THEN TheValue(customArgs)
         ELSE IF isStop THEN <<S["--quit"]>> ELSE <<>>

\* args with the profile's two default lists taken for each other
launchArgs_WrongDirection(config, isStop, customArgs) ==
    IF config # undefined
    THEN IF customArgs # undefined THEN TheValue(customArgs)
         ELSE IF isStop THEN TheValue(config).startArgs
         ELSE TheValue(config).stopArgs
    ELSE IF customArgs # undefined THEN TheValue(customArgs)
         ELSE IF isStop THEN <<S["--quit"]>> ELSE <<>>

\* line 125 and line 132: args; an array, even an empty one, is truthy
launchArgs(config, isStop, customArgs) ==
    IF config # undefined
    THEN IF customArgs # undefined THEN TheValue(customArgs)
         ELSE IF isStop THEN TheValue(config).stopArgs
         ELSE TheValue(config).startArgs
    ELSE IF customArgs # undefined THEN TheValue(customArgs)
         ELSE IF isStop THEN <<S["--quit"]>> ELSE <<>>

\* line 126 and line 130: displayName
launchDisplayName(config, appName) ==
    IF config # undefined THEN TheValue(config).displayName ELSE appName

StartedOrStopped(isStop) ==
    IF isStop THEN S[" stopped successfully"] ELSE S[" started successfully"]
FailedTo(isStop) ==
    IF isStop THEN S["Failed to stop "] ELSE S["Failed to start "]
FailedToApplication(isStop) ==
    IF isStop THEN S["Failed to stop application: "]
    ELSE S["Failed to start application: "]

\* A catch block that lets the error of a start out of launchAppProcess
launchAppProcess_catch_Rethrows(req, message) ==
    IF req.isStop
    THEN [req EXCEPT !.pc = "pkill_window",
                     !.caught = message,
                     !.children = Append(@,
                        Child("spawn", S["pkill"],
                              <<S["-f"], replaceDotApp(req.name)>>,
                              FALSE, TRUE, FALSE))]
    ELSE [req EXCEPT !.pc = "crashed", !.caught = message]

\* The catch block with the pattern of the kill left as the caller wrote it
launchAppProcess_catch_KeepsExt(req, message) ==
    IF req.isStop
    THEN [req EXCEPT !.pc = "pkill_window",
                     !.caught = message,
                     !.children = Append(@,
                        Child("spawn", S["pkill"], <<S["-f"], req.name>>,
                              FALSE, TRUE, FALSE))]
    ELSE Finish([req EXCEPT !.caught = message],
                Result(FALSE, FailedToApplication(FALSE) \o message))

\* lines 166-192: the catch block, entered with the caught error's message
launchAppProcess_catch(req, message) ==
    IF req.isStop
    THEN \* safeSpawnAsync('pkill', ['-f', appNameNoExt])
         [req EXCEPT !.pc = "pkill_window",
                     !.caught = message,
                     !.children = Append(@,
                        Child("spawn", S["pkill"],
                              <<S["-f"], replaceDotApp(req.name)>>,
                              FALSE, TRUE, FALSE))]
    ELSE Finish([req EXCEPT !.caught = message],
                Result(FALSE, FailedToApplication(FALSE) \o message))

\* lines 134-164: the spawn, with execPath, args and displayName chosen
launchAppProcess_spawn(req, execPath, args, displayName) ==
    IF includes(execPath, S[" "]) /\ platform = S["darwin"]
    THEN \* await safeSpawnAsync(execPath, args, true)
         [req EXCEPT !.pc = "shell_window",
                     !.displayName = displayName,
                     !.execPath = Some(execPath),
                     !.spawnArgs = Some(args),
                     !.okMessage = displayName \o StartedOrStopped(req.isStop),
                     !.children = Append(@,
                        Child("spawn", execPath, args, TRUE, TRUE, FALSE))]
    ELSE \* spawn(execPath, args, {detached}); unref on a start
         [req EXCEPT !.pc = "window",
                     !.displayName = displayName,
                     !.execPath = Some(execPath),
                     !.spawnArgs = Some(args),
                     !.okMessage = displayName \o StartedOrStopped(req.isStop),
                     !.children = Append(@,
                        Child("spawn", execPath, args, FALSE, TRUE,
                              ~req.isStop))]

\* lines 116-133: the try block up to the spawn, with appConfig looked up
\* and getExecutablePath called (p is what it returned or threw)
launchAppProcess_try(req, config, p, customArgs) ==
    IF ~p.ok
    THEN launchAppProcess_catch(req, p.message)
    ELSE launchAppProcess_spawn(req, p.val,
            launchArgs(config, req.isStop, customArgs),
            launchDisplayName(config, req.name))

\* launchAppProcess looking the profile up under the name as written
launchAppProcess_ExactKey(req, appName, isStop, customArgs) ==
    launchAppProcess_try(
        [req EXCEPT !.name = appName, !.isStop = isStop],
        ConfigFor(appName),
        launchExecPath(ConfigFor(appName), appName),
        customArgs)

\* lines 115-165: launchAppProcess up to its first suspension
launchAppProcess(req, appName, isStop, customArgs) ==
    launchAppProcess_try(
        [req EXCEPT !.name = appName, !.isStop = isStop],
        ConfigFor(toLowerCase(appName)),
        launchExecPath(ConfigFor(toLowerCase(appName)), appName),
        customArgs)

\* launchAppProcess with the caller's list pushed onto the profile's own
\* array, which line 125 would then hand out again
launchAppProcess_profiles_SharedArray(table, appName, isStop, customArgs) ==
    IF toLowerCase(appName) \in DOMAIN table /\ customArgs # undefined
    THEN IF isStop
         THEN [table EXCEPT ![toLowerCase(appName)].stopArgs =
                                @ \o TheValue(customArgs)]
         ELSE [table EXCEPT ![toLowerCase(appName)].startArgs =
                                @ \o TheValue(customArgs)]
    ELSE table

\* APP_CONFIGS after launchAppProcess has run: lines 118-126 only read the
\* table; the startArgs or stopArgs array that line 125 takes from it is
\* handed to spawn (lines 71 and 143), which copies it; nothing is assigned
\* to the table and nothing is pushed onto its arrays
launchAppProcess_profiles(table, appName, isStop, customArgs) == table

\* The newest child of a request: the one whose events it is waiting for
LastChild(req) == req.children[Len(req.children)]

\* An 'error' listener of the direct spawn that spawns the executable again
launchAppProcess_error_Retries(req) ==
    CASE req.pc = "window" ->
            [req EXCEPT !.children = Append(@, LastChild(req))]
      [] req.pc = "shell_window" ->
            launchAppProcess_catch(req, SpawnErrorMessage(LastChild(req)))
      [] req.pc = "pkill_window" ->
            Finish(req, Result(FALSE,
                FailedToApplication(req.isStop) \o req.caught))

\* Listeners that let the window end in success whatever the child emitted
launchAppProcess_error_Swallowed(req) ==
    Finish(req, Result(TRUE, req.okMessage))

\* The 'error' event of the awaited child, when the promise is still pending
launchAppProcess_error(req) ==
    CASE req.pc = "window" ->
            \* lines 151-156
            Finish(req, Result(FALSE,
                Concat(<<FailedTo(req.isStop), req.displayName, S[": "],
                         SpawnErrorMessage(LastChild(req))>>)))
      [] req.pc = "shell_window" ->
            \* safeSpawnAsync rejects: line 76, then the catch
            launchAppProcess_catch(req, SpawnErrorMessage(LastChild(req)))
      [] req.pc = "pkill_window" ->
            \* lines 177-191: pkillError.code === 1, else the first error
            IF StrictEquals(SpawnErrorCode, Number(1))
            THEN Finish(req, Result(TRUE,
                    S["No running processes found for "] \o req.name))
            ELSE Finish(req, Result(FALSE,
                    FailedToApplication(req.isStop) \o req.caught))

\* safeSpawnAsync without the timer that resolves its promise
launchAppProcess_timer_DirectOnly(req) ==
    CASE req.pc = "window" -> Finish(req, Result(TRUE, req.okMessage))
      [] req.pc \in {"shell_window", "pkill_window"} -> req

\* The 500 ms timer, when the promise is still pending
launchAppProcess_timer(req) ==
    CASE req.pc \in {"window", "shell_window"} ->
            \* lines 137-140 and 157-162
            Finish(req, Result(TRUE, req.okMessage))
      [] req.pc = "pkill_window" ->
            \* lines 172-175
            Finish(req, Result(TRUE,
                Concat(<<S["Application "], req.name,
                         S[" stopped using pkill"]>>)))

-----------------------------------------------------------------------------

(* part_000: the CallToolRequestSchema handler, lines 302-451 *)

\* getConfiguredApps, lines 203-205
getConfiguredApps == <<profiles[S["desktop-crawler"]].displayName>>

\* A schema that does not declare args
StartAppInputSchema_ok_NoArgs(req) == req.appName # undefined

\* StartAppInputSchema.parse / StopAppInputSchema.parse: appName a string,
\* args an optional array of strings
StartAppInputSchema_ok(req) == req.appName # undefined /\ ~req.argsMalformed

\* z.ZodError of a failed parse, as the catch reports it (lines 430-439)
ZodErrorResponse == ErrorResponse(S["Invalid arguments: "] \o <<"[issues]">>)

\* A guard that also lets the two shortcuts through without arguments
ToolsWithoutArguments_Shortcuts ==
    {"list_applications", "list_configured_apps", "start_firecrawl",
     "stop_firecrawl"}

\* lines 304-307: the tools that need no arguments object
ToolsWithoutArguments == {"list_applications", "list_configured_apps"}

CallTool(req) ==
    IF ~req.hasArguments /\ req.tool \notin ToolsWithoutArguments
    THEN Finish(req, ErrorResponse(S["Error: "] \o S["Arguments are required"]))
    ELSE CASE req.tool = "start_app" ->
                IF StartAppInputSchema_ok(req)
                THEN launchAppProcess(req, TheValue(req.appName), FALSE, req.args)
                ELSE Finish(req, ZodErrorResponse)
           [] req.tool = "stop_app" ->
                IF StartAppInputSchema_ok(req)
                THEN launchAppProcess(req, TheValue(req.appName), TRUE, req.args)
                ELSE Finish(req, ZodErrorResponse)
           [] req.tool = "list_configured_apps" ->
                Finish(req, ListResult(getConfiguredApps))
           [] req.tool = "start_firecrawl" ->
                launchAppProcess(req, S["desktop-crawler"], FALSE, undefined)
           [] req.tool = "stop_firecrawl" ->
                launchAppProcess(req, S["desktop-crawler"], TRUE, undefined)
           [] OTHER ->
                Finish(req, ErrorResponse(
                    Concat(<<S["Error: "], S["Unknown tool: "], S[req.tool]>>)))

-----------------------------------------------------------------------------
(* index.ts (second copy, lines 426-1062): profiles, startApp, stopApp *)

\* APP_CONFIGS['firecrawl'].executablePath, lines 459-474
executablePath_ts ==
    IF nodeEnv = "development" THEN Return(S["electron"])
    ELSE IF platform = S["darwin"]
    THEN Return(S["/Applications/Desktop Crawler.app/Contents/MacOS/Desktop Crawler"])
    ELSE IF platform = S["win32"]
    THEN Return(S["C:\\Program Files\\Desktop Crawler\\Desktop Crawler.exe"])
    ELSE IF platform = S["linux"]
    THEN Return(S["/usr/local/bin/desktop-crawler"])
    ELSE Throw(S["Unsupported platform: "] \o platform)

\* APP_CONFIGS['firecrawl'].startArgs, lines 475-481
startArgs_ts(customArgs) ==
    LET args == <<S["--headless"], S["--firecrawl-headless"]>>
    IN  IF customArgs # undefined /\ Len(TheValue(customArgs)) > 0
        THEN args \o TheValue(customArgs)
        ELSE args

\* APP_CONFIGS['firecrawl'].stopCommand, lines 482-495
stopCommand_ts ==
    IF platform = S["darwin"]
    THEN Return(S["/Applications/Desktop Crawler.app/Contents/MacOS/Desktop Crawler --stop"])
    ELSE IF platform = S["win32"]
    THEN Return(S["\"C:\\Program Files\\Desktop Crawler\\Desktop Crawler.exe\" --stop"])
    ELSE IF platform = S["linux"]
    THEN Return(S["/usr/local/bin/desktop-crawler --stop"])
    ELSE Throw(S["Unsupported platform: "] \o platform)

\* APP_CONFIGS[appName.toLowerCase()] is defined, lines 455-497
Configured_ts(appName) == toLowerCase(appName) = S["firecrawl"]

\* path.join of names that hold no separator: posix joins with '/', and
\* win32 also turns every '/' into '\'
join(parts) ==
    LET RECURSIVE Glue(_)
        Glue(ps) == IF Len(ps) = 1 THEN ps[1]
                    ELSE Concat(<<ps[1], S["/"], Glue(Tail(ps))>>)
        posix == Glue(parts)
    IN  IF platform = S["win32"]
        THEN [i \in 1..Len(posix) |->
                IF posix[i] = "/" THEN "\\" ELSE posix[i]]
        ELSE posix

\* String.prototype.split(sep), for a separator that is not empty
RECURSIVE split(_, _)
split(s, sep) ==
    IF ~includes(s, sep) THEN <<s>>
    ELSE LET i == CHOOSE k \in 0..(Len(s) - Len(sep)) :
                    /\ SubSeq(s, k + 1, k + Len(sep)) = sep
                    /\ \A j \in 0..(k - 1) : SubSeq(s, j + 1, j + Len(sep)) # sep
         IN  <<SubSeq(s, 1, i)>> \o split(SubSeq(s, i + Len(sep) + 1, Len(s)), sep)

\* `"${path}"`
Quoted(path) == Concat(<<S["\""], path, S["\""]>>)

\* The default branch's executable, lines 603-608
DefaultExecutable_ts(appName) ==
    LET fullAppName == IF endsWith(appName, S[".app"]) THEN appName
                       ELSE appName \o S[".app"]
        appPath == join(<<S["/Applications"], fullAppName>>)
        executableName == replaceDotApp(fullAppName)
    IN  join(<<appPath, S["Contents/MacOS"], executableName>>)

\* startApp, lines 542-666, up to its first suspension
startApp_ts(req, appName, args) ==
    LET r0 == [req EXCEPT !.name = appName, !.isStop = FALSE]
    IN  IF Configured_ts(appName)
        THEN LET p == executablePath_ts
                 startArgs == startArgs_ts(args)
                 r1 == [r0 EXCEPT !.displayName = S["Firecrawl"],
                                  !.execPath = Some(p.val),
                                  !.spawnArgs = Some(startArgs),
                                  !.okMessage = Concat(<<S["Firecrawl"],
                                      S[" started successfully"],
                                      S[" with configured settings"]>>)]
             IN  IF ~p.ok
                 THEN Finish([r0 EXCEPT !.caught = p.message],
                        Result(FALSE, S["Failed to start application: "] \o p.message))
                 ELSE IF includes(p.val, S[" "]) /\ platform = S["darwin"]
                 THEN \* exec(cmdWithArgs, ...) and success at once
                      Finish([r1 EXCEPT !.children = Append(@,
                                Child("exec",
                                      Concat(<<Quoted(p.val), S[" "],
                                               joinSpace(startArgs)>>),
                                      <<>>, TRUE, FALSE, FALSE))],
                             Result(TRUE, r1.okMessage))
                 ELSE [r1 EXCEPT !.pc = "window",
                                 !.children = Append(@,
                                    Child("spawn", p.val, startArgs,
                                          FALSE, TRUE, TRUE))]
        ELSE LET executablePath == DefaultExecutable_ts(appName)
                 r1 == [r0 EXCEPT !.displayName = appName,
                                  !.execPath = Some(executablePath),
                                  !.spawnArgs = IF args # undefined THEN args
                                                ELSE Some(<<>>),
                                  !.okMessage = Concat(<<S["Application "], appName,
                                      S[" started successfully"],
                                      IF args # undefined
                                      THEN S[" with arguments: "] \o
                                           joinSpace(TheValue(args))
                                      ELSE <<>> >>)]
             IN  IF includes(executablePath, S[" "])
                 THEN Finish([r1 EXCEPT !.children = Append(@,
                                Child("exec",
                                      Concat(<<Quoted(executablePath), S[" "],
                                               IF args # undefined
                                               THEN joinSpace(TheValue(args))
                                               ELSE <<>> >>),
                                      <<>>, TRUE, FALSE, FALSE))],
                             Result(TRUE, r1.okMessage))
                 ELSE [r1 EXCEPT !.pc = "window",
                                 !.children = Append(@,
                                    Child("spawn", executablePath,
                                          IF args # undefined THEN TheValue(args)
                                          ELSE <<>>,
                                          FALSE, TRUE, TRUE))]

\* startApp's 'error' handler and timer, lines 585-598 and 643-656
startApp_ts_error(req) ==
    Finish(req, Result(FALSE,
        Concat(<<S["Failed to start "], req.displayName, S[": "],
                 SpawnErrorMessage(LastChild(req))>>)))
startApp_ts_timer(req) == Finish(req, Result(TRUE, req.okMessage))

\* execAsync(command): the request waits for the command to exit
ExecAsync(req, pc, command) ==
    [req EXCEPT !.pc = pc,
                !.children = Append(@,
                    Child("exec", command, <<>>, TRUE, FALSE, FALSE))]

\* stopApp, lines 668-751, up to its first suspension
stopApp_ts(req, appName) ==
    LET r0 == [req EXCEPT !.name = appName, !.isStop = TRUE]
    IN  IF Configured_ts(appName)
        THEN LET c  == stopCommand_ts
                 r1 == [r0 EXCEPT !.displayName = S["Firecrawl"]]
             IN  IF ~c.ok
                 THEN \* the outer catch, lines 735-750: error.code is undefined
                      Finish([r0 EXCEPT !.caught = c.message],
                        Result(FALSE, S["Failed to stop application: "] \o c.message))
                 ELSE IF /\ platform = S["darwin"]
                         /\ includes(c.val, S["/Applications/"])
                         /\ includes(c.val, S[" "])
                         /\ Len(split(c.val, S[" --"])) > 1
                 THEN LET parts == split(c.val, S[" --"])
                      IN  ExecAsync(r1, "exec_configured",
                            Concat(<<Quoted(parts[1]), S[" "],
                                     S["--"], parts[2]>>))
                 ELSE ExecAsync(r1, "exec_configured", c.val)
        ELSE LET fullAppName == IF endsWith(appName, S[".app"]) THEN appName
                                ELSE appName \o S[".app"]
                 appNameWithoutExt == replaceDotApp(fullAppName)
             IN  ExecAsync([r0 EXCEPT !.displayName = appName], "exec_pkill",
                           S["pkill -f "] \o Quoted(appNameWithoutExt))

\* The command of execAsync exits with a status
stopApp_ts_exit(req, status) ==
    LET message == S["Command failed: "] \o LastChild(req).command
    IN  CASE req.pc = "exec_configured" ->
                IF status = 0
                THEN Finish(req, Result(TRUE,
                        Concat(<<req.displayName, S[" stopped successfully"],
                                 S[" using configured command"]>>)))
                ELSE Finish(req, Result(FALSE,
                        Concat(<<S["Failed to stop "], req.displayName,
                                 S[": "], message>>)))
          [] req.pc = "exec_pkill" ->
                IF status = 0
                THEN Finish(req, Result(TRUE,
                        Concat(<<S["Application "], req.name,
                                 S[" stopped successfully"]>>)))
                ELSE IF status = 1
                THEN Finish(req, Result(TRUE,
                        S["No running processes found for "] \o req.name))
                ELSE Finish([req EXCEPT !.caught = message], Result(FALSE,
                        S["Failed to stop application: "] \o message))

\* getConfiguredApps, lines 754-756
getConfiguredApps_ts == <<S["Firecrawl"]>>

\* StopAppInputSchema.parse, lines 802-804: appName only, other keys dropped
StopAppInputSchema_ts_ok(req) == req.appName # undefined

\* The CallToolRequestSchema handler, lines 865-1013
CallTool_ts(req) ==
    IF ~req.hasArguments /\ req.tool \notin ToolsWithoutArguments
    THEN Finish(req, ErrorResponse(S["Error: "] \o S["Arguments are required"]))
    ELSE CASE req.tool = "start_app" ->
                IF StartAppInputSchema_ok(req)
                THEN startApp_ts(req, TheValue(req.appName), req.args)
                ELSE Finish(req, ZodErrorResponse)
           [] req.tool = "stop_app" ->
                IF StopAppInputSchema_ts_ok(req)
                THEN stopApp_ts(req, TheValue(req.appName))
                ELSE Finish(req, ZodErrorResponse)
           [] req.tool = "list_configured_apps" ->
                Finish(req, ListResult(getConfiguredApps_ts))
           [] req.tool = "start_firecrawl" ->
                startApp_ts(req, S["firecrawl"],
                    Some(<<S["--headless"], S["--firecrawl-headless"]>>))
           [] req.tool = "stop_firecrawl" ->
                stopApp_ts(req, S["firecrawl"])
           [] OTHER ->
                Finish(req, ErrorResponse(
                    Concat(<<S["Error: "], S["Unknown tool: "], S[req.tool]>>)))

-----------------------------------------------------------------------------
(* index.ts (first copy, lines 1-425): startApp, stopApp and the handler.  *)
(* Its executablePath, startArgs and default executable read as those of   *)
(* the second copy do (lines 33-55 and 142-147).                           *)

\* console.log(line): a line on process.stdout
console_log(req, line) == [req EXCEPT !.stdout = Append(@, line)]

\* APP_CONFIGS['firecrawl'].stopCommand, lines 56-73
stopCommand_v1 ==
    IF platform = S["darwin"]
    THEN Return(Quoted(S["/Applications/Desktop Crawler.app/Contents/MacOS/Desktop Crawler"])
                \o S[" --stop"])
    ELSE IF platform = S["win32"]
    THEN Return(Quoted(S["C:\\Program Files\\Desktop Crawler\\Desktop Crawler.exe"])
                \o S[" --stop"])
    ELSE IF platform = S["linux"]
    THEN Return(Quoted(S["/usr/local/bin/desktop-crawler"]) \o S[" --stop"])
    ELSE Throw(S["Unsupported platform: "] \o platform)

\* lines 165-171: `${error}` of an Error is 'Error: ' and its message
startApp_v1_catch(req, message) ==
    Finish([req EXCEPT !.caught = message],
           Result(FALSE, Concat(<<S["Failed to start application: "],
                                  S["Error: "], message>>)))

\* lines 124-139, with executablePath called (p is what it returned or
\* threw) and startArgs computed
startApp_v1_configured(req, p, startArgs) ==
    IF ~p.ok
    THEN startApp_v1_catch(req, p.message)
    ELSE Finish(
            [console_log(req, Concat(<<S["Command: "], p.val, S[" "],
                                       joinSpace(startArgs)>>))
                EXCEPT !.displayName = S["Firecrawl"],
                       !.execPath = Some(p.val),
                       !.spawnArgs = Some(startArgs),
                       !.children = Append(@,
                            Child("spawn", p.val, startArgs, FALSE, TRUE, TRUE))],
            Result(TRUE, Concat(<<S["Firecrawl"], S[" started successfully"],
                                  S[" with configured settings"]>>)))

\* lines 141-163, with executablePath computed
startApp_v1_default(req, appName, args, executablePath) ==
    Finish(
        [console_log(req, Concat(<<S["Starting application: "], executablePath,
                                   S[" "],
                                   IF args # undefined
                                   THEN joinSpace(TheValue(args)) ELSE <<>> >>))
            EXCEPT !.displayName = appName,
                   !.execPath = Some(executablePath),
                   !.spawnArgs = IF args # undefined THEN args ELSE Some(<<>>),
                   !.children = Append(@,
                        Child("spawn", executablePath,
                              IF args # undefined THEN TheValue(args) ELSE <<>>,
                              FALSE, TRUE, TRUE))],
        Result(TRUE, Concat(<<S["Application "], appName,
                              S[" started successfully"],
                              IF args # undefined
                              THEN S[" with arguments: "] \o
                                   joinSpace(TheValue(args))
                              ELSE <<>> >>)))

\* startApp, lines 115-172: it returns without waiting for the child
startApp_v1(req, appName, args) ==
    IF Configured_ts(appName)
    THEN startApp_v1_configured(
            console_log([req EXCEPT !.name = appName, !.isStop = FALSE],
                Concat(<<S["Starting "], S["Firecrawl"],
                         S[" with configured settings"]>>)),
            executablePath_ts, startArgs_ts(args))
    ELSE startApp_v1_default([req EXCEPT !.name = appName, !.isStop = FALSE],
            appName, args, DefaultExecutable_ts(appName))

\* lines 179-186, with stopCommand called (c is what it returned or threw);
\* the catch of lines 209-225 sees no error.code on a thrown Error
stopApp_v1_configured(req, c) ==
    IF ~c.ok
    THEN Finish([req EXCEPT !.caught = c.message],
            Result(FALSE, S["Failed to stop application: "] \o c.message))
    ELSE ExecAsync(console_log(req, S["Command: "] \o c.val),
                   "exec_configured", c.val)

\* stopApp, lines 174-226, up to its first suspension
stopApp_v1(req, appName) ==
    IF Configured_ts(appName)
    THEN stopApp_v1_configured(
            console_log([req EXCEPT !.name = appName, !.isStop = TRUE,
                                    !.displayName = S["Firecrawl"]],
                Concat(<<S["Stopping "], S["Firecrawl"],
                         S[" with configured command"]>>)),
            stopCommand_v1)
    ELSE ExecAsync([req EXCEPT !.name = appName, !.isStop = TRUE,
                               !.displayName = appName],
            "exec_pkill",
            S["pkill -f "] \o
            Quoted(replaceDotApp(IF endsWith(appName, S[".app"]) THEN appName
                                 ELSE appName \o S[".app"])))

\* The command of execAsync exits with a status: lines 186-207, and the one
\* catch of lines 209-225 for both commands
stopApp_v1_exit(req, status) ==
    IF status = 0
    THEN IF req.pc = "exec_configured"
         THEN Finish(req, Result(TRUE,
                Concat(<<req.displayName, S[" stopped successfully"],
                         S[" using configured command"]>>)))
         ELSE Finish(req, Result(TRUE,
                Concat(<<S["Application "], req.name,
                         S[" stopped successfully"]>>)))
    ELSE IF status = 1
    THEN Finish(req, Result(TRUE,
            S["No running processes found for "] \o req.name))
    ELSE Finish([req EXCEPT !.caught =
                    S["Command failed: "] \o LastChild(req).command],
            Result(FALSE, Concat(<<S["Failed to stop application: "],
                S["Command failed: "], LastChild(req).command>>)))

\* An 'error' event of a child that no listener was registered for: the
\* uncaught exception ends the process
Uncaught(req) == [req EXCEPT !.pc = "crashed"]

\* An Error thrown out of the handler, lines 408-413: the protocol layer
\* answers the request with an error that carries its message
ThrownError(message) == ErrorResponse(message)

\* The CallToolRequestSchema handler, lines 340-414
CallTool_v1(req) ==
    IF ~req.hasArguments /\ req.tool \notin ToolsWithoutArguments
    THEN Finish(req, ThrownError(S["Arguments are required"]))
    ELSE CASE req.tool = "start_app" ->
                IF StartAppInputSchema_ok(req)
                THEN startApp_v1(req, TheValue(req.appName), req.args)
                ELSE Finish(req, ThrownError(S["Invalid arguments"]))
           [] req.tool = "stop_app" ->
                IF StopAppInputSchema_ts_ok(req)
                THEN stopApp_v1(req, TheValue(req.appName))
                ELSE Finish(req, ThrownError(S["Invalid arguments"]))
           [] req.tool = "list_configured_apps" ->
                Finish(req, ListResult(getConfiguredApps_ts))
           [] req.tool = "start_firecrawl" ->
                startApp_v1(req, S["firecrawl"],
                    Some(<<S["--headless"], S["--firecrawl-headless"]>>))
           [] req.tool = "stop_firecrawl" ->
                stopApp_v1(req, S["firecrawl"])
           [] OTHER ->
                Finish(req, ThrownError(S["Unknown tool: "] \o S[req.tool]))

-----------------------------------------------------------------------------
(* The event loop: invocations, child-process events, timers *)

\* The handler of the running copy, up to its first suspension
Handle(req) ==
    IF build = "part_000" THEN CallTool(req)
    ELSE IF build = "index_v1" THEN CallTool_v1(req)
    ELSE CallTool_ts(req)

\* APP_CONFIGS after the handler has run for a request: none of the other
\* handlers of part_000 names the table but getConfiguredApps, which reads
\* it, and the copies of index.ts have no such table
ProfilesAfter(handled) ==
    IF build = "part_000" /\ handled.name # <<>>
    THEN launchAppProcess_profiles(profiles, handled.name, handled.isStop,
                                   handled.args)
    ELSE profiles

Event(child, kind, status) == [child |-> child, kind |-> kind, status |-> status]

\* The promise the request awaits is pending on its newest child
AwaitsWindow(req) == req.pc \in {"window", "shell_window", "pkill_window"}
AwaitsExit(req) == req.pc \in {"exec_configured", "exec_pkill"}

\* An event that can still happen to a request's child: 'error' and the
\* timer once each for a child that a promise with a timer watches, the
\* exit of a command that execAsync awaits, and the exit of a pkill that
\* safeSpawnAsync started (which has no listener for it)
CanHappen(req, ev) ==
    /\ ev.child \in 1..Len(req.children)
    /\ \A i \in 1..Len(req.events) :
            ~(req.events[i].child = ev.child /\ req.events[i].kind = ev.kind)
    /\ \/ /\ ev.kind = "timer"
          /\ req.children[ev.child].api = "spawn"
          /\ build # "index_v1"   \* the first copy sets no timer
          /\ ev.status = 0
       \/ /\ ev.kind = "error"
          /\ req.children[ev.child].api = "spawn"
          /\ ev.status = 0
          /\ \A i \in 1..Len(req.events) :
                ~(req.events[i].child = ev.child /\ req.events[i].kind = "exit")
       \/ /\ ev.kind = "exit"
          /\ ev.child = Len(req.children)
          /\ \/ AwaitsExit(req)
             \/ /\ req.children[ev.child].command = S["pkill"]
                /\ \A i \in 1..Len(req.events) :
                      ~(req.events[i].child = ev.child /\ req.events[i].kind = "error")

\* A promise that the later of its two callbacks settles again
Settled_LastCallWins(req, ev) ==
    IF req.pc = "done" /\ ev.kind = "timer"
    THEN Finish([req EXCEPT !.events = Append(@, ev)],
                Result(TRUE, req.okMessage))
    ELSE IF req.pc = "done" /\ ev.kind = "error"
    THEN Finish([req EXCEPT !.events = Append(@, ev)],
                Result(FALSE,
                    Concat(<<FailedTo(req.isStop), req.displayName, S[": "],
                             SpawnErrorMessage(req.children[ev.child])>>)))
    ELSE [req EXCEPT !.events = Append(@, ev)]

\* The callback of an event whose promise is already settled, or an event
\* that nothing listens for: resolve and reject of a settled promise do
\* nothing, and the 'error' listener stays attached, so the event is
\* handled and changes nothing
Settled(req, ev) == [req EXCEPT !.events = Append(@, ev)]

\* The listener or continuation the event runs; an event of a child whose
\* promise is already settled, or that nothing listens for, changes nothing
\* but the record of it
OnEvent(req, ev) ==
    IF ev.kind = "exit"
    THEN IF ~AwaitsExit(req)
         THEN Settled(req, ev)
         ELSE IF build = "index_v1"
         THEN stopApp_v1_exit([req EXCEPT !.events = Append(@, ev)], ev.status)
         ELSE stopApp_ts_exit([req EXCEPT !.events = Append(@, ev)], ev.status)
    ELSE IF build = "index_v1" /\ ev.kind = "error"
    THEN Uncaught([req EXCEPT !.events = Append(@, ev)])
    ELSE IF ~(AwaitsWindow(req) /\ ev.child = Len(req.children))
    THEN Settled(req, ev)
    ELSE IF build = "index_ts"
    THEN IF ev.kind = "error"
         THEN startApp_ts_error([req EXCEPT !.events = Append(@, ev)])
         ELSE startApp_ts_timer([req EXCEPT !.events = Append(@, ev)])
    ELSE IF ev.kind = "error"
         THEN launchAppProcess_error([req EXCEPT !.events = Append(@, ev)])
         ELSE launchAppProcess_timer([req EXCEPT !.events = Append(@, ev)])

\* The inputs the model draws
Names ==
    {S["Ab"], S["ab"], S["A b"], S["Ab.app"], S["desktop-crawler"],
     S["Desktop-Crawler"], S["firecrawl"]}
ArgLists ==
    {<<>>, <<S["--x"]>>, <<S["--headless"], S["--firecrawl-headless"]>>}
Tools ==
    {"start_app", "stop_app", "start_firecrawl", "stop_firecrawl",
     "list_configured_apps", "list_running_apps"}
ExitStatuses == {0, 1, 2}

\* A request as it arrives
Request(tool, hasArguments, appName, args, argsMalformed) ==
    [IdleReq EXCEPT !.pc = "received", !.tool = tool,
                    !.hasArguments = hasArguments, !.appName = appName,
                    !.args = args, !.argsMalformed = argsMalformed]

Requests ==
    {Request(t, h, undefined, undefined, FALSE) :
        t \in Tools, h \in BOOLEAN}
    \cup
    {Request(t, TRUE, n, a, FALSE) :
        t \in {"start_app", "stop_app"},
        n \in {Some(x) : x \in Names},
        a \in {undefined} \cup {Some(x) : x \in ArgLists}}
    \cup
    {Request(t, TRUE, n, undefined, TRUE) :
        t \in {"start_app", "stop_app"},
        n \in {undefined, Some(S["Ab"])}}

\* The one invocation the copies of the program in src/ are followed through:
\* they keep no state from one invocation to the next
Invoke ==
    /\ reqs[1].pc = "idle"
    /\ \E q \in Requests :
          /\ reqs' = [reqs EXCEPT ![1] = Handle(q)]
          /\ profiles' = ProfilesAfter(Handle(q))
    /\ UNCHANGED <<build, platform, nodeEnv, registry, nextPid, started>>

ChildError ==
    /\ \E i \in 1..Len(reqs[1].children) :
          /\ CanHappen(reqs[1], Event(i, "error", 0))
          /\ reqs' = [reqs EXCEPT ![1] = OnEvent(@, Event(i, "error", 0))]
    /\ UNCHANGED <<build, platform, nodeEnv, registry, nextPid, profiles, started>>

TimerFires ==
    /\ \E i \in 1..Len(reqs[1].children) :
          /\ CanHappen(reqs[1], Event(i, "timer", 0))
          /\ reqs' = [reqs EXCEPT ![1] = OnEvent(@, Event(i, "timer", 0))]
    /\ UNCHANGED <<build, platform, nodeEnv, registry, nextPid, profiles, started>>

CommandExits ==
    /\ \E status \in ExitStatuses :
          /\ CanHappen(reqs[1], Event(Len(reqs[1].children), "exit", status))
          /\ reqs' = [reqs EXCEPT ![1] =
                OnEvent(@, Event(Len(reqs[1].children), "exit", status))]
    /\ UNCHANGED <<build, platform, nodeEnv, registry, nextPid, profiles, started>>

\* The response has been sent and the slot serves the next invocation
Release ==
    /\ reqs[1].pc = "done"
    /\ reqs' = [reqs EXCEPT ![1] = IdleReq]
    /\ UNCHANGED <<build, platform, nodeEnv, registry, nextPid, profiles, started>>

Init ==
    /\ build \in {"index_ts", "part_000"}
    /\ platform \in Platforms
    /\ nodeEnv \in {"development", "production"}
    /\ reqs = [r \in {1} |-> IdleReq]
    /\ registry = <<>>
    /\ nextPid = 1
    /\ profiles = APP_CONFIGS
    /\ started = {}

Next ==
    \/ Invoke
    \/ ChildError
    \/ TimerFires
    \/ CommandExits
    \/ Release

Spec == Init /\ [][Next]_vars

\* The three copies of the program under src/, the first one included
InitAll ==
    /\ build \in {"index_v1", "index_ts", "part_000"}
    /\ platform \in Platforms
    /\ nodeEnv \in {"development", "production"}
    /\ reqs = [r \in {1} |-> IdleReq]
    /\ registry = <<>>
    /\ nextPid = 1
    /\ profiles = APP_CONFIGS
    /\ started = {}

SpecAll == InitAll /\ [][Next]_vars

\* part_000 alone, with its timers firing: a timer that setTimeout has set
\* (lines 78 and 157-162) runs its callback once its 500 ms have passed,
\* since no handler of the program blocks the event loop
InitPart000 ==
    /\ build = "part_000"
    /\ platform \in Platforms
    /\ nodeEnv \in {"development", "production"}
    /\ reqs = [r \in {1} |-> IdleReq]
    /\ registry = <<>>
    /\ nextPid = 1
    /\ profiles = APP_CONFIGS
    /\ started = {}

SpecTimers == InitPart000 /\ [][Next]_vars /\ WF_vars(TimerFires)

\* A session of invocations, with the names that start_app has been invoked
\* with kept on record
SessionNames == {S["A b"], S["desktop-crawler"], S["firecrawl"]}

SessionRequests ==
    {Request(t, TRUE, Some(n), undefined, FALSE) :
        t \in {"start_app", "stop_app"}, n \in SessionNames}

\* A handler that takes a stop_app of a name that has not been started for
\* a stop of nothing
HandleInSession_Tracking(q, earlier) ==
    IF q.tool = "stop_app" /\ TheValue(q.appName) \notin earlier
    THEN Finish([q EXCEPT !.name = TheValue(q.appName), !.isStop = TRUE],
                Result(TRUE, S["No running processes found for "] \o
                             TheValue(q.appName)))
    ELSE Handle(q)

\* What the running copy does with a request that arrives after start_app
\* has been invoked with the names `earlier`: startApp and stopApp take the
\* request's own arguments (part_000 lines 195-201), and the module has no
\* variable that an invocation writes and a later one reads
HandleInSession(q, earlier) == Handle(q)

InvokeInSession ==
    /\ reqs[1].pc = "idle"
    /\ \E q \in SessionRequests :
          /\ reqs' = [reqs EXCEPT ![1] = HandleInSession(q, started)]
          /\ profiles' = ProfilesAfter(Handle(q))
          /\ started' = IF q.tool = "start_app"
                        THEN started \cup {TheValue(q.appName)}
                        ELSE started
    /\ UNCHANGED <<build, platform, nodeEnv, registry, nextPid>>

NextSession ==
    \/ InvokeInSession
    \/ ChildError
    \/ TimerFires
    \/ CommandExits
    \/ Release

SpecSession == Init /\ [][NextSession]_vars

-----------------------------------------------------------------------------
(* The Process Registry, the tracking of a launch and the tracked path of  *)
(* a stop, as the specification describes them (sections 3, 4.2, 4.3 and   *)
(* 4.4): no copy of the program under src/ holds them.  The launcher and   *)
(* the untracked path are those of part_000.                               *)

MaxInFlight == 2
MaxPid == 2

\* Keys taken as the caller wrote them
Normalize_Verbatim(key) == key

\* Keys are case-folded before any operation
Normalize(key) == toLowerCase(key)

TrackedProcess(key, processId, displayName, startedAt) ==
    [key |-> key, processId |-> processId, displayName |-> displayName,
     startedAt |-> startedAt]

\* remove(key)
RegistryRemove(reg, key) ==
    SelectSeq(reg, LAMBDA e : e.key # Normalize(key))

\* put that leaves the entry the key had in place
RegistryPut_KeepsOld(reg, key, entry) ==
    Append(reg, [entry EXCEPT !.key = Normalize(key)])

\* put(key, entry): the entry replaces the one the key had
RegistryPut(reg, key, entry) ==
    Append(RegistryRemove(reg, key), [entry EXCEPT !.key = Normalize(key)])

\* get(key): the entry or undefined
RegistryGet(reg, key) ==
    {reg[i] : i \in {j \in 1..Len(reg) : reg[j].key = Normalize(key)}}

\* list()
RegistryList(reg) == reg

\* String(n) of a natural number
DecimalDigits == <<"0", "1", "2", "3", "4", "5", "6", "7", "8", "9">>
RECURSIVE ToDecimal(_)
ToDecimal(n) ==
    IF n < 10 THEN <<DecimalDigits[n + 1]>>
    ELSE ToDecimal(n \div 10) \o <<DecimalDigits[(n % 10) + 1]>>

\* list_running_apps that leaves out the newest entry
RunningApps_DropsNewest(reg) ==
    [i \in 1..(Len(RegistryList(reg)) - 1) |->
        [appName   |-> RegistryList(reg)[i].displayName,
         pid       |-> RegistryList(reg)[i].processId,
         startTime |-> RegistryList(reg)[i].startedAt]]

\* list_running_apps: {appName, pid, startTime} of every tracked process
RunningApps(reg) ==
    [i \in 1..Len(RegistryList(reg)) |->
        [appName   |-> RegistryList(reg)[i].displayName,
         pid       |-> RegistryList(reg)[i].processId,
         startTime |-> RegistryList(reg)[i].startedAt]]

\* The launcher hands the child it spawned, if it spawned one, the next
\* process id
Spawned(req, pid) ==
    IF req.children # <<>> THEN [req EXCEPT !.pid = pid] ELSE req

\* Section 4.2 step 4: a launch whose window elapsed without an error is
\* recorded; its process id also stands for its start time
Recorded(reg, req) ==
    IF ~req.isStop /\ req.pc = "done" /\ TheValue(req.response).success
    THEN RegistryPut(reg, req.name,
            TrackedProcess(req.name, req.pid, req.displayName, req.pid))
    ELSE reg

\* Section 4.3, tracked path: the stop waits for the termination of the
\* process tree of the entry it found
TreeKill(req, appName, entry) ==
    [req EXCEPT !.pc = "tree_kill", !.name = appName, !.isStop = TRUE,
                !.displayName = entry.displayName, !.pid = entry.processId]

\* A tracked path that reports the failure of the tree termination
TreeKilled_ReportsFailure(req, ok) ==
    IF ok
    THEN Finish(req, Result(TRUE,
            Concat(<<req.displayName, S[" stopped successfully"],
                     S[" (PID: "], ToDecimal(req.pid), S[")"]>>)))
    ELSE Finish(req, Result(FALSE, FailedTo(TRUE) \o req.displayName))

\* Section 4.3: success reports the process id; failure falls through to
\* the untracked path
TreeKilled(req, ok) ==
    IF ok
    THEN Finish(req, Result(TRUE,
            Concat(<<req.displayName, S[" stopped successfully"],
                     S[" (PID: "], ToDecimal(req.pid), S[")"]>>)))
    ELSE launchAppProcess(req, req.name, TRUE, req.args)

\* The names the registry is exercised with on darwin: one application in
\* two spellings, whose path needs the shell, and one whose path does not
TrackedNames == {S["A b"], S["a b"], S["Ab"]}

\* A handler that has returned has its response sent before the event
\* loop runs anything else
NoneAnswered == \A q \in 1..MaxInFlight : reqs[q].pc # "done"

\* An invocation that arrives takes the first slot that is free
Free(r) ==
    /\ NoneAnswered
    /\ reqs[r].pc = "idle"
    /\ \A q \in 1..(r - 1) : reqs[q].pc # "idle"

StartApp(r) ==
    /\ Free(r)
    /\ nextPid <= MaxPid
    /\ \E n \in TrackedNames :
          reqs' = [reqs EXCEPT ![r] =
            Spawned(launchAppProcess(
                        Request("start_app", TRUE, Some(n), undefined, FALSE),
                        n, FALSE, undefined),
                    nextPid)]
    /\ nextPid' = nextPid + Len(reqs'[r].children)
    /\ UNCHANGED <<build, platform, nodeEnv, registry, profiles, started>>

StopApp(r) ==
    /\ Free(r)
    /\ \E n \in TrackedNames :
          reqs' = [reqs EXCEPT ![r] =
            IF RegistryGet(registry, n) # undefined
            THEN TreeKill(Request("stop_app", TRUE, Some(n), undefined, FALSE),
                          n, TheValue(RegistryGet(registry, n)))
            ELSE launchAppProcess(
                    Request("stop_app", TRUE, Some(n), undefined, FALSE),
                    n, TRUE, undefined)]
    /\ UNCHANGED <<build, platform, nodeEnv, registry, nextPid, profiles, started>>

ListRunningApps(r) ==
    /\ Free(r)
    /\ reqs' = [reqs EXCEPT ![r] =
            Finish(Request("list_running_apps", TRUE, undefined, undefined, FALSE),
                   ListResult(RunningApps(registry)))]
    /\ UNCHANGED <<build, platform, nodeEnv, registry, nextPid, profiles, started>>

WindowError(r) ==
    /\ NoneAnswered
    /\ AwaitsWindow(reqs[r])
    /\ CanHappen(reqs[r], Event(Len(reqs[r].children), "error", 0))
    /\ reqs' = [reqs EXCEPT ![r] =
            OnEvent(@, Event(Len(reqs[r].children), "error", 0))]
    /\ UNCHANGED <<build, platform, nodeEnv, registry, nextPid, profiles, started>>

WindowElapses(r) ==
    /\ NoneAnswered
    /\ AwaitsWindow(reqs[r])
    /\ CanHappen(reqs[r], Event(Len(reqs[r].children), "timer", 0))
    /\ reqs' = [reqs EXCEPT ![r] =
            OnEvent(@, Event(Len(reqs[r].children), "timer", 0))]
    /\ registry' = Recorded(registry, reqs'[r])
    /\ UNCHANGED <<build, platform, nodeEnv, nextPid, profiles, started>>

\* The tracked path clearing the entry only when the termination succeeded
TreeKillDone_OnlyOnSuccess(r) ==
    /\ NoneAnswered
    /\ reqs[r].pc = "tree_kill"
    /\ \E ok \in BOOLEAN :
          /\ reqs' = [reqs EXCEPT ![r] = TreeKilled(@, ok)]
          /\ registry' = IF ok THEN RegistryRemove(registry, reqs[r].name)
                         ELSE registry
    /\ UNCHANGED <<build, platform, nodeEnv, nextPid, profiles, started>>

\* The tracked termination ends: the entry is cleared either way
TreeKillDone(r) ==
    /\ NoneAnswered
    /\ reqs[r].pc = "tree_kill"
    /\ \E ok \in BOOLEAN : reqs' = [reqs EXCEPT ![r] = TreeKilled(@, ok)]
    /\ registry' = RegistryRemove(registry, reqs[r].name)
    /\ UNCHANGED <<build, platform, nodeEnv, nextPid, profiles, started>>

Respond(r) ==
    /\ reqs[r].pc = "done"
    /\ reqs' = [reqs EXCEPT ![r] = IdleReq]
    /\ UNCHANGED <<build, platform, nodeEnv, registry, nextPid, profiles, started>>

InitRegistry ==
    /\ build = "registry"
    /\ platform = S["darwin"]
    /\ nodeEnv = "production"
    /\ reqs = [r \in 1..MaxInFlight |-> IdleReq]
    /\ registry = <<>>
    /\ nextPid = 1
    /\ profiles = APP_CONFIGS
    /\ started = {}

NextRegistry ==
    \E r \in 1..MaxInFlight :
        \/ StartApp(r)
        \/ StopApp(r)
        \/ ListRunningApps(r)
        \/ WindowError(r)
        \/ WindowElapses(r)
        \/ TreeKillDone(r)
        \/ Respond(r)

SpecRegistry == InitRegistry /\ [][NextRegistry]_vars

-----------------------------------------------------------------------------
(* Properties of the copies of the program under src/                       *)

\* The request has been handed to its handler
Handled(q) == q.pc # "idle"

\* The events a request has seen, run again on another request
RECURSIVE Replay(_, _)
Replay(q, events) ==
    IF events = <<>> THEN q
    ELSE Replay(OnEvent(q, Head(events)), Tail(events))

\* What an invocation does that its caller and the operating system see
Behaviour(q) == [pc |-> q.pc, children |-> q.children, response |-> q.response]

HeadlessArgs == <<S["--headless"], S["--firecrawl-headless"]>>

\* A child that runs the name-based kill
IsPkill(child) ==
    \/ child.command = S["pkill"]
    \/ /\ Len(child.command) >= Len(S["pkill -f "])
       /\ SubSeq(child.command, 1, Len(S["pkill -f "])) = S["pkill -f "]

\* The name-based kill of the request exited with status 1: no process
\* matched the name
NoProcessMatched(q) ==
    \E i \in 1..Len(q.events) :
        /\ q.events[i].kind = "exit"
        /\ q.events[i].status = 1
        /\ IsPkill(q.children[q.events[i].child])

\* C5: a stop_app of an application that nothing tracks, whose name-based
\* kill matched no process (exit status 1), answers success with the
\* message "No running processes found for <name>".
C5_NoMatchIsSuccess ==
    \A r \in DOMAIN reqs :
        (/\ reqs[r].tool = "stop_app"
         /\ reqs[r].pc = "done"
         /\ registry = <<>>
         /\ NoProcessMatched(reqs[r]))
        => /\ TheValue(reqs[r].response).success
           /\ TheValue(reqs[r].response).message =
                S["No running processes found for "] \o reqs[r].name

\* C6: in part_000 a start_firecrawl invocation spawns the same children
\* (executable, arguments, options) and returns the same response as
\* start_app("desktop-crawler", ["--headless", "--firecrawl-headless"])
\* does under the same events.
C6_AliasOfDesktopCrawler ==
    \A r \in DOMAIN reqs :
        (/\ build = "part_000"
         /\ reqs[r].tool = "start_firecrawl"
         /\ reqs[r].hasArguments
         /\ Handled(reqs[r]))
        => Behaviour(reqs[r]) =
             Behaviour(Replay(
                Handle(Request("start_app", TRUE, Some(S["desktop-crawler"]),
                               Some(HeadlessArgs), FALSE)),
                reqs[r].events))

\* A start_firecrawl with input {} has started the configured executable
\* with the two headless arguments and has answered success
C6_Witness ==
    /\ build = "part_000"
    /\ reqs[1].tool = "start_firecrawl"
    /\ reqs[1].pc = "done"
    /\ TheValue(reqs[1].response).success
    /\ Len(reqs[1].children) = 1
    /\ reqs[1].children[1].args = HeadlessArgs
    /\ reqs[1].children[1].command = S["/usr/local/bin/desktop-crawler"]

\* C7: a start_firecrawl with input {} does what start_app with appName
\* "firecrawl" and args ["--headless", "--firecrawl-headless"] does under
\* the same events, and the executable gets exactly that argument list.
C7_ReadmeEquivalence ==
    \A r \in DOMAIN reqs :
        (/\ reqs[r].tool = "start_firecrawl"
         /\ reqs[r].hasArguments
         /\ Handled(reqs[r]))
        => /\ Behaviour(reqs[r]) =
                Behaviour(Replay(
                    Handle(Request("start_app", TRUE, Some(S["firecrawl"]),
                                   Some(HeadlessArgs), FALSE)),
                    reqs[r].events))
           /\ reqs[r].spawnArgs # undefined
                => reqs[r].spawnArgs = Some(HeadlessArgs)

\* The input of a start_app or stop_app that does not have the declared
\* shape: no arguments object, no appName, or args that is given and is not
\* an array of strings (index.ts declares no args for stop_app)
FailsDeclaredShape(q) ==
    /\ q.tool \in {"start_app", "stop_app"}
    /\ \/ ~q.hasArguments
       \/ q.appName = undefined
       \/ /\ q.argsMalformed
          /\ ~(build \in {"index_ts", "index_v1"} /\ q.tool = "stop_app")

\* C8: an invocation whose input fails the declared shape is answered at
\* once with an error response (the validation message when an arguments
\* object was given), and no child process is spawned for it.
C8_ValidationFailureNoSpawn ==
    \A r \in DOMAIN reqs :
        (Handled(reqs[r]) /\ FailsDeclaredShape(reqs[r]))
        => /\ reqs[r].pc = "done"
           /\ reqs[r].children = <<>>
           /\ TheValue(reqs[r].response).isError
           /\ reqs[r].hasArguments =>
                /\ Len(TheValue(reqs[r].response).message) >=
                        Len(S["Invalid arguments: "])
                /\ SubSeq(TheValue(reqs[r].response).message, 1,
                          Len(S["Invalid arguments: "])) = S["Invalid arguments: "]

\* A stop_app whose args is not an array of strings has been refused
C8_Witness ==
    /\ build = "part_000"
    /\ reqs[1].tool = "stop_app"
    /\ reqs[1].appName # undefined
    /\ reqs[1].argsMalformed
    /\ reqs[1].pc = "done"
    /\ TheValue(reqs[1].response).isError
    /\ reqs[1].children = <<>>

SupportedPlatforms == {S["darwin"], S["win32"], S["linux"]}

\* The conventional path of each platform, written out for the names the
\* model draws that part_000 has no profile for
DocumentedConvention ==
    (S["darwin"] :>
       ((S["Ab"] :> S["/Applications/Ab.app/Contents/MacOS/Ab"]) @@
        (S["ab"] :> S["/Applications/ab.app/Contents/MacOS/ab"]) @@
        (S["A b"] :> S["/Applications/A b.app/Contents/MacOS/A b"]) @@
        (S["Ab.app"] :> S["/Applications/Ab.app.app/Contents/MacOS/Ab.app"]) @@
        (S["firecrawl"] :> S["/Applications/firecrawl.app/Contents/MacOS/firecrawl"]))) @@
    (S["win32"] :>
       ((S["Ab"] :> S["C:\\Program Files\\Ab\\Ab.exe"]) @@
        (S["ab"] :> S["C:\\Program Files\\ab\\ab.exe"]) @@
        (S["A b"] :> S["C:\\Program Files\\A b\\A b.exe"]) @@
        (S["Ab.app"] :> S["C:\\Program Files\\Ab.app\\Ab.app.exe"]) @@
        (S["firecrawl"] :> S["C:\\Program Files\\firecrawl\\firecrawl.exe"]))) @@
    (S["linux"] :>
       ((S["Ab"] :> S["/usr/local/bin/ab"]) @@
        (S["ab"] :> S["/usr/local/bin/ab"]) @@
        (S["A b"] :> S["/usr/local/bin/a b"]) @@
        (S["Ab.app"] :> S["/usr/local/bin/ab.app"]) @@
        (S["firecrawl"] :> S["/usr/local/bin/firecrawl"])))

\* The request went through launchAppProcess of part_000
Launched(q) == build = "part_000" /\ Handled(q) /\ q.name # <<>>

\* The resolver's result as a launch shows it: the path, or the error
ResolvedAsDocumented(q) ==
    IF platform \in SupportedPlatforms
    THEN q.execPath = Some(DocumentedConvention[platform][q.name])
    ELSE /\ q.execPath = undefined
         /\ q.caught = S["Unsupported platform: "] \o platform

\* C9 as stated: without a profile override the resolved path is the
\* platform's conventional path on darwin, win32 and linux, and the
\* resolution fails with the unsupported-platform error on any other
\* platform, whatever the environment.
C9_ResolvePathAnyEnvironment ==
    \A r \in DOMAIN reqs :
        (/\ Launched(reqs[r])
         /\ reqs[r].name \in DOMAIN DocumentedConvention[S["linux"]])
        => ResolvedAsDocumented(reqs[r])

\* C9 as amended: that holds when NODE_ENV is not 'development'; when it is,
\* the resolved path is 'electron' on every platform, supported or not.
C9_ResolvePathOutsideDevelopment ==
    \A r \in DOMAIN reqs :
        (/\ Launched(reqs[r])
         /\ reqs[r].name \in DOMAIN DocumentedConvention[S["linux"]])
        => IF nodeEnv = "development"
           THEN reqs[r].execPath = Some(S["electron"])
           ELSE ResolvedAsDocumented(reqs[r])

\* A launch on linux has resolved a mixed-case name to the local-bin path
C9_Witness ==
    /\ build = "part_000"
    /\ platform = S["linux"]
    /\ nodeEnv # "development"
    /\ reqs[1].name = S["Ab"]
    /\ reqs[1].execPath = Some(S["/usr/local/bin/ab"])

\* The application has a profile in the running copy
HasProfile(name) ==
    IF build = "index_ts" THEN toLowerCase(name) = S["firecrawl"]
    ELSE toLowerCase(name) = S["desktop-crawler"]

\* The profile's default list for the direction
ProfileDefault(isStop) ==
    IF isStop THEN <<S["--headless"], S["--stop"]>> ELSE HeadlessArgs

\* A start_app or stop_app has chosen the arguments of its child
ChoseArgs(q) ==
    /\ Handled(q)
    /\ q.tool \in {"start_app", "stop_app"}
    /\ q.spawnArgs # undefined

\* C10 as stated: the effective arguments are the caller's when supplied,
\* else the profile's default list for the direction, else the empty list.
C10_EffectiveArgs ==
    \A r \in DOMAIN reqs :
        ChoseArgs(reqs[r])
        => reqs[r].spawnArgs =
             IF reqs[r].args # undefined THEN reqs[r].args
             ELSE IF HasProfile(reqs[r].name)
             THEN Some(ProfileDefault(reqs[r].isStop))
             ELSE Some(<<>>)

\* C10 as amended: the caller's list when supplied, which the firecrawl
\* profile of index.ts puts after its two default start arguments instead
\* of replacing them; else the profile's default list for the direction;
\* else, with no profile, the empty list for a start and ['--quit'] for a
\* stop.
C10_EffectiveArgsAmended ==
    \A r \in DOMAIN reqs :
        ChoseArgs(reqs[r])
        => reqs[r].spawnArgs =
             IF build = "index_ts" /\ HasProfile(reqs[r].name)
             THEN IF reqs[r].args # undefined
                  THEN Some(ProfileDefault(FALSE) \o TheValue(reqs[r].args))
                  ELSE Some(ProfileDefault(FALSE))
             ELSE IF reqs[r].args # undefined THEN reqs[r].args
             ELSE IF HasProfile(reqs[r].name)
             THEN Some(ProfileDefault(reqs[r].isStop))
             ELSE IF reqs[r].isStop THEN Some(<<S["--quit"]>>)
             ELSE Some(<<>>)

\* A stop_app with a profile and no arguments of the caller's has chosen
\* the profile's stop list
C10_Witness ==
    /\ build = "part_000"
    /\ reqs[1].tool = "stop_app"
    /\ reqs[1].args = undefined
    /\ reqs[1].name = S["Desktop-Crawler"]
    /\ reqs[1].spawnArgs = Some(<<S["--headless"], S["--stop"]>>)

\* The invocation went into the core: a start or a stop of an application
InCore(q) ==
    /\ q.tool \in {"start_app", "stop_app", "start_firecrawl", "stop_firecrawl"}
    /\ q.name # <<>>

\* The path resolution of the invocation threw
ResolutionFailed(q) ==
    /\ q.execPath = undefined
    /\ Len(q.caught) >= Len(S["Unsupported platform: "])
    /\ SubSeq(q.caught, 1, Len(S["Unsupported platform: "])) =
            S["Unsupported platform: "]

\* A child of the invocation emitted 'error' before its window's timer fired
ErrorWithinWindow(q) ==
    \E i \in 1..Len(q.events) :
        /\ q.events[i].kind = "error"
        /\ \A j \in 1..(i - 1) :
              ~(q.events[j].kind = "timer" /\ q.events[j].child = q.events[i].child)

\* A command that the stop ran to terminate the application exited with a
\* status that is neither success nor "no matching process"
TerminationFailed(q) ==
    \E i \in 1..Len(q.events) :
        /\ q.events[i].kind = "exit"
        /\ q.events[i].status \notin {0, 1}

\* C11: a failure inside the core of a start or a stop (path resolution,
\* spawn, termination) is never an uncaught fault and never a protocol
\* error: the invocation is answered with success false and a message.
C11_FailuresAreStructuredOutcomes ==
    \A r \in DOMAIN reqs :
        InCore(reqs[r])
        => /\ reqs[r].pc # "crashed"
           /\ (/\ reqs[r].pc = "done"
               /\ \/ ResolutionFailed(reqs[r])
                  \/ ErrorWithinWindow(reqs[r])
                  \/ TerminationFailed(reqs[r]))
              => /\ ~TheValue(reqs[r].response).isError
                 /\ ~TheValue(reqs[r].response).success
                 /\ TheValue(reqs[r].response).message # <<>>

\* The tool names that the handler's switch has a case for (of those the
\* model draws)
RecognizedTools ==
    {"start_app", "stop_app", "list_configured_apps", "start_firecrawl",
     "stop_firecrawl"}

\* The input fails the validation of its tool: the declared shape of
\* start_app and stop_app, and an arguments object for every tool but the
\* two lists
FailsValidation(q) ==
    \/ FailsDeclaredShape(q)
    \/ q.tool \in {"start_firecrawl", "stop_firecrawl"} /\ ~q.hasArguments

\* C12: an invocation is answered with a protocol-level error exactly when
\* its input fails validation or its tool name is not recognized; every
\* other invocation is answered with a normal result payload, also when the
\* start or the stop it asked for failed.
C12_ErrorsOnlyForInputOrName ==
    \A r \in DOMAIN reqs :
        reqs[r].pc = "done"
        => (TheValue(reqs[r].response).isError
            <=> (FailsValidation(reqs[r])
                 \/ reqs[r].tool \notin RecognizedTools))

\* A well-shaped start_app whose launch failed has a normal result that
\* reports the failure
C12_Witness ==
    /\ reqs[1].tool = "start_app"
    /\ reqs[1].hasArguments /\ reqs[1].appName # undefined
    /\ reqs[1].pc = "done"
    /\ ~TheValue(reqs[1].response).isError
    /\ ~TheValue(reqs[1].response).success

\* C13: while an invocation is handled nothing but response payloads is
\* written to process.stdout, the channel of the responses: no diagnostic
\* or log line is written to it.
C13_StdoutCarriesOnlyResponses ==
    \A r \in DOMAIN reqs : reqs[r].stdout = <<>>

\* The name-based kill that the stop ran exited with this status
KillExited(q, status) ==
    \E i \in 1..Len(q.events) :
        /\ q.events[i].kind = "exit"
        /\ q.events[i].status = status
        /\ IsPkill(q.children[q.events[i].child])

\* C14: a stop whose name-based kill exited with a status other than 0 and
\* 1 is answered with success false, and the no-op answer "No running
\* processes found" is given for status 1 only.
C14_OtherStatusIsFailure ==
    \A r \in DOMAIN reqs :
        (InCore(reqs[r]) /\ reqs[r].isStop /\ reqs[r].pc = "done")
        => /\ (\E status \in ExitStatuses \ {0, 1} : KillExited(reqs[r], status))
                => ~TheValue(reqs[r].response).success
           /\ TheValue(reqs[r].response).message =
                    S["No running processes found for "] \o reqs[r].name
                => KillExited(reqs[r], 1)

\* The base name of an application: its name without a trailing ".app"
BaseName(name) == IF name = S["Ab.app"] THEN S["Ab"] ELSE name

\* The child runs the pattern kill on the base name of the application
KillsByName(child, name) ==
    \/ /\ child.api = "spawn"
       /\ child.command = S["pkill"]
       /\ child.args = <<S["-f"], BaseName(name)>>
    \/ /\ child.api = "exec"
       /\ child.command = Concat(<<S["pkill -f "], S["\""], BaseName(name), S["\""]>>)

\* A stop_app of an application that nothing tracks and that has no profile
UntrackedStop(q) ==
    /\ q.tool = "stop_app"
    /\ InCore(q)
    /\ ~HasProfile(q.name)
    /\ registry = <<>>

\* C15 as stated: such a stop_app runs the pattern kill on the base name of
\* the application and nothing else.
C15_UntrackedStopKillsByName ==
    \A r \in DOMAIN reqs :
        UntrackedStop(reqs[r])
        => /\ Len(reqs[r].children) = 1
           /\ KillsByName(reqs[r].children[1], reqs[r].name)

\* The first child of a stop is the resolved executable, run with the
\* caller's arguments or with --quit
RunsExecutableToQuit(q) ==
    /\ q.execPath # undefined
    /\ q.children[1].command = TheValue(q.execPath)
    /\ q.children[1].args =
            IF q.args # undefined THEN TheValue(q.args) ELSE <<S["--quit"]>>

\* C15 as amended: the second copy of index.ts runs the pattern kill and
\* nothing else.  part_000 first runs the conventionally resolved
\* executable with the caller's arguments or ['--quit']; it runs the
\* pattern kill in its place when the path cannot be resolved, and after it
\* when the shell-routed spawn of the executable emits an error within its
\* window, and in no other case.
C15_UntrackedStopAmended ==
    \A r \in DOMAIN reqs :
        UntrackedStop(reqs[r])
        => IF build = "index_ts"
           THEN /\ Len(reqs[r].children) = 1
                /\ KillsByName(reqs[r].children[1], reqs[r].name)
           ELSE /\ Len(reqs[r].children) \in {1, 2}
                /\ IF ResolutionFailed(reqs[r])
                   THEN /\ Len(reqs[r].children) = 1
                        /\ KillsByName(reqs[r].children[1], reqs[r].name)
                   ELSE RunsExecutableToQuit(reqs[r])
                /\ Len(reqs[r].children) = 2
                    => /\ reqs[r].children[1].shell
                       /\ reqs[r].events # <<>>
                       /\ reqs[r].events[1] = Event(1, "error", 0)
                       /\ KillsByName(reqs[r].children[2], reqs[r].name)
                /\ (/\ Len(reqs[r].children) = 1
                    /\ reqs[r].children[1].shell
                    /\ reqs[r].events # <<>>)
                    => reqs[r].events[1] # Event(1, "error", 0)

\* A stop_app of "Ab.app" where the path cannot be resolved has run the
\* pattern kill on "Ab"
C15_Witness ==
    /\ build = "part_000"
    /\ reqs[1].tool = "stop_app"
    /\ reqs[1].name = S["Ab.app"]
    /\ reqs[1].pc = "done"
    /\ Len(reqs[1].children) = 1
    /\ reqs[1].children[1].command = S["pkill"]
    /\ reqs[1].children[1].args = <<S["-f"], S["Ab"]>>

\* The path that a start_app of the application resolves in this copy, on
\* this platform and in this environment
StartPath(name) ==
    Handle(Request("start_app", TRUE, Some(name), undefined, FALSE)).execPath

\* The stop arguments that the profile of the copy configures
ConfiguredStopArgs ==
    IF build = "part_000" THEN <<S["--headless"], S["--stop"]>>
    ELSE <<S["--stop"]>>

\* The child is the executable at the path, run with the arguments
Invokes(child, path, args) ==
    \/ /\ child.api = "spawn"
       /\ child.command = path
       /\ child.args = args
    \/ /\ child.api = "exec"
       /\ child.command \in
            {Concat(<<path, S[" "], joinSpace(args)>>),
             Concat(<<S["\""], path, S["\""], S[" "], joinSpace(args)>>)}

\* A stop of an application whose profile configures how to stop it, with
\* no arguments of the caller's
ConfiguredStop(q) ==
    /\ q.tool \in {"stop_app", "stop_firecrawl"}
    /\ InCore(q)
    /\ HasProfile(q.name)
    /\ q.args = undefined

\* C16: a stop of an application whose profile configures stop arguments or
\* a stop command runs no name-based kill; the one child it runs is the
\* executable at the path that start_app resolves for the application,
\* with the configured stop arguments.
C16_ConfiguredStopOverrides ==
    \A r \in DOMAIN reqs :
        ConfiguredStop(reqs[r])
        => /\ \A i \in 1..Len(reqs[r].children) : ~IsPkill(reqs[r].children[i])
           /\ Len(reqs[r].children) <= 1
           /\ Len(reqs[r].children) = 1
                => /\ StartPath(reqs[r].name) # undefined
                   /\ Invokes(reqs[r].children[1],
                              TheValue(StartPath(reqs[r].name)),
                              ConfiguredStopArgs)

\* A launch: a start that has spawned its child
Launch(q) ==
    /\ q.tool \in {"start_app", "start_firecrawl"}
    /\ InCore(q)
    /\ q.children # <<>>

ProfileOverride ==
    (S["darwin"] :> S["/Applications/Desktop Crawler.app/Contents/MacOS/Desktop Crawler"]) @@
    (S["win32"] :> S["C:\\Program Files\\Desktop Crawler\\Desktop Crawler.exe"]) @@
    (S["linux"] :> S["/usr/local/bin/desktop-crawler"])

\* A start or a stop of part_000 for the application that has the profile
LaunchedWithProfile(q) ==
    /\ Launched(q)
    /\ toLowerCase(q.name) = S["desktop-crawler"]

\* The executable path is the profile's override for the platform, and the
\* child that was spawned runs it; where the profile has no override for
\* the platform the convention decides, which knows no such platform
UsesOverride(q) ==
    IF platform \in DOMAIN ProfileOverride
    THEN /\ q.execPath = Some(ProfileOverride[platform])
         /\ q.children # <<>>
         /\ q.children[1].command = ProfileOverride[platform]
    ELSE /\ q.execPath = undefined
         /\ q.caught = S["Unsupported platform: "] \o platform

\* C19 as stated: a start or a stop of an application whose profile has a
\* path override for the platform uses exactly that override, in every
\* environment.
C19_OverrideInEveryEnvironment ==
    \A r \in DOMAIN reqs :
        LaunchedWithProfile(reqs[r]) => UsesOverride(reqs[r])

\* C19 as amended: that holds when NODE_ENV is not 'development'; when it
\* is, the path is 'electron' whatever the profile overrides.
C19_OverrideOutsideDevelopment ==
    \A r \in DOMAIN reqs :
        LaunchedWithProfile(reqs[r])
        => IF nodeEnv = "development"
           THEN /\ reqs[r].execPath = Some(S["electron"])
                /\ reqs[r].children # <<>>
                /\ reqs[r].children[1].command = S["electron"]
           ELSE UsesOverride(reqs[r])

\* A stop_app of "Desktop-Crawler" on linux has run the profile's override
C19_Witness ==
    /\ build = "part_000"
    /\ platform = S["linux"]
    /\ nodeEnv # "development"
    /\ reqs[1].tool = "stop_app"
    /\ reqs[1].name = S["Desktop-Crawler"]
    /\ Len(reqs[1].children) = 1
    /\ reqs[1].children[1].command = S["/usr/local/bin/desktop-crawler"]

\* Names in other spellings of their letters' case
Spellings ==
    Names \cup {S["AB"], S["DESKTOP-CRAWLER"], S["Firecrawl"], S["FIRECRAWL"]}

\* The same start_app or stop_app with the name spelled another way, up to
\* its first suspension
Respelled(q, name) ==
    Handle(Request(q.tool, TRUE, Some(name), q.args, FALSE))

\* A start_app or stop_app that went into the core
NamedCall(q) == q.tool \in {"start_app", "stop_app"} /\ InCore(q)

\* C20 as stated: two names that differ only in the case of their letters
\* resolve the same profile, the same executable path and the same
\* argument list, for start_app and for stop_app.
C20_CaseInsensitiveResolution ==
    \A r \in DOMAIN reqs :
        NamedCall(reqs[r])
        => \A name \in Spellings :
              toLowerCase(name) = toLowerCase(reqs[r].name)
              => /\ Respelled(reqs[r], name).execPath = reqs[r].execPath
                 /\ Respelled(reqs[r], name).spawnArgs = reqs[r].spawnArgs

\* C20 as amended: they resolve the same profile (or none) and the same
\* argument list; with a profile they resolve the same executable path;
\* with none the path is derived from the name as it is written, and only
\* the linux convention of part_000 folds its case.
C20_CaseInsensitiveProfile ==
    \A r \in DOMAIN reqs :
        NamedCall(reqs[r])
        => \A name \in Spellings :
              toLowerCase(name) = toLowerCase(reqs[r].name)
              => /\ Respelled(reqs[r], name).spawnArgs = reqs[r].spawnArgs
                 /\ HasProfile(reqs[r].name)
                      => /\ Respelled(reqs[r], name).execPath = reqs[r].execPath
                         /\ Respelled(reqs[r], name).displayName =
                                reqs[r].displayName
                 /\ (build = "part_000" /\ platform = S["linux"])
                      => Respelled(reqs[r], name).execPath = reqs[r].execPath

\* A start_app of "Desktop-Crawler" has resolved the profile of
\* "desktop-crawler": its path on darwin and its default start arguments
C20_Witness ==
    /\ build = "part_000"
    /\ platform = S["darwin"]
    /\ nodeEnv # "development"
    /\ reqs[1].tool = "start_app"
    /\ reqs[1].args = undefined
    /\ reqs[1].name = S["Desktop-Crawler"]
    /\ reqs[1].displayName = S["Desktop Crawler"]
    /\ reqs[1].execPath =
            Some(S["/Applications/Desktop Crawler.app/Contents/MacOS/Desktop Crawler"])
    /\ reqs[1].spawnArgs = Some(HeadlessArgs)

\* A launch that was answered with success
LaunchedSuccessfully(q) ==
    /\ Launch(q)
    /\ q.pc = "done"
    /\ TheValue(q.response).success

\* The child is out of the manager's lifecycle: it was spawned with
\* detached: true, which takes it out of the manager's process group, and
\* unref() was called on it, so that the manager's event loop does not wait
\* for it
Released(child) == child.detached /\ child.unref

\* C21: every process of a launch that was answered with success is
\* detached from the manager's lifecycle, by detached: true and by unref(),
\* whether it was spawned directly or through the shell.
C21_LaunchedProcessIsDetached ==
    \A r \in DOMAIN reqs :
        LaunchedSuccessfully(reqs[r])
        => \A i \in 1..Len(reqs[r].children) : Released(reqs[r].children[i])

\* The launch went through the intermediary shell
ThroughShell(q) == q.children[1].shell

\* The resolved path holds a space and the platform is the one where the
\* direct execution of such a path is not relied on
NeedsShell(q) ==
    /\ includes(TheValue(q.execPath), S[" "])
    /\ platform = S["darwin"]

\* C22: a launch goes through the intermediary shell exactly when the
\* resolved path holds a space and the platform is darwin; in every other
\* case the executable at the resolved path is spawned directly.
C22_StrategyByPathAndPlatform ==
    \A r \in DOMAIN reqs :
        Launch(reqs[r])
        => /\ reqs[r].execPath # undefined
           /\ ThroughShell(reqs[r]) <=> NeedsShell(reqs[r])
           /\ ~ThroughShell(reqs[r])
                => /\ reqs[r].children[1].api = "spawn"
                   /\ reqs[r].children[1].command = TheValue(reqs[r].execPath)

\* C23: when a launch goes through the shell because its path holds a
\* space, the shell reads the whole resolved path as one word: the program
\* it executes is the resolved executable, and not the part of the path in
\* front of its first space.
C23_ShellRunsResolvedPath ==
    \A r \in DOMAIN reqs :
        (Launch(reqs[r]) /\ ThroughShell(reqs[r]))
        => /\ reqs[r].execPath # undefined
           /\ ShellProgram(reqs[r].children[1]) = TheValue(reqs[r].execPath)

\* The invocation is suspended on a promise that a child's 'error' event or
\* a timer settles
Pending(q) == q.pc \in {"window", "shell_window", "pkill_window"}

\* The invocation was answered after something happened to the child it
\* had spawned last: it emitted 'error' or the timer of its window fired
AnsweredOnEvent(q) ==
    \E i \in 1..Len(q.events) :
        /\ q.events[i].child = Len(q.children)
        /\ q.events[i].kind \in {"error", "timer"}

\* The answer of an invocation stands until the slot is released
AnswerStands ==
    reqs[1].pc = "done"
    => \/ reqs'[1] = IdleReq
       \/ /\ reqs'[1].pc = "done"
          /\ reqs'[1].response = reqs[1].response

\* C24: a start or a stop of part_000 that has spawned a child is held
\* pending until that child emits 'error' or the timer of its window fires,
\* and is not answered before; an invocation has a response exactly when it
\* is done, and the response does not change afterwards; and once the
\* timers fire, every pending invocation is answered.
C24_HeldThenAnsweredOnce ==
    /\ [](InCore(reqs[1])
          => /\ (reqs[1].pc = "done") <=> (reqs[1].response # undefined)
             /\ (reqs[1].pc = "done" /\ reqs[1].children # <<>>)
                    => AnsweredOnEvent(reqs[1])
             /\ (reqs[1].pc # "done") => Pending(reqs[1]))
    /\ [][AnswerStands]_vars
    /\ (Pending(reqs[1]) ~> (reqs[1].pc = "done"))

\* A stop_app on a platform that has no convention went to the name-based
\* kill, was held until the timer of that kill's window fired, and was then
\* answered
C24_Witness ==
    /\ reqs[1].tool = "stop_app"
    /\ reqs[1].pc = "done"
    /\ Len(reqs[1].children) = 1
    /\ reqs[1].children[1].command = S["pkill"]
    /\ reqs[1].events = <<Event(1, "timer", 0)>>
    /\ TheValue(reqs[1].response).success

\* The children of an invocation: a start spawns at most one; a stop spawns
\* at most the executable and, when that attempt threw, the name-based kill
\* in its place
AtMostOneAttemptEach(q) ==
    /\ ~q.isStop => Len(q.children) <= 1
    /\ q.isStop =>
        /\ Len(q.children) <= 2
        /\ Len(q.children) = 2
            => /\ ~IsPkill(q.children[1])
               /\ IsPkill(q.children[2])

\* An invocation that has been answered spawns nothing more, and its answer
\* is not given again or changed
NothingAfterTheAnswer ==
    reqs[1].pc = "done"
    => \/ reqs'[1] = IdleReq
       \/ /\ reqs'[1].children = reqs[1].children
          /\ reqs'[1].response = reqs[1].response
          /\ reqs'[1].pc = "done"

\* An event of a child makes a start spawn nothing more
NoRespawnOnEvent ==
    (/\ InCore(reqs[1]) /\ ~reqs[1].isStop
     /\ reqs[1].children # <<>>
     /\ reqs'[1] # IdleReq
     /\ reqs'[1].events # reqs[1].events)
    => reqs'[1].children = reqs[1].children

\* C25: there is no automatic retry.  An invocation of start_app or of the
\* start shortcut spawns the application at most once, whatever its child
\* emits; a stop spawns no command twice (the name-based kill stands in for
\* an attempt that threw); and once a success or a failure has been
\* answered, the invocation spawns nothing more and answers nothing else.
C25_NoAutomaticRetry ==
    /\ [](InCore(reqs[1]) => AtMostOneAttemptEach(reqs[1]))
    /\ [][NothingAfterTheAnswer /\ NoRespawnOnEvent]_vars

\* A start whose child emitted 'error' was answered with failure; the timer
\* of its window fired afterwards, and the one child is all it has spawned
C25_Witness ==
    /\ reqs[1].tool = "start_app"
    /\ reqs[1].pc = "done"
    /\ ~TheValue(reqs[1].response).success
    /\ Len(reqs[1].children) = 1
    /\ reqs[1].events = <<Event(1, "error", 0), Event(1, "timer", 0)>>

\* The names that list_configured_apps answers in the running copy
ConfiguredNames ==
    IF build = "part_000" THEN <<S["Desktop Crawler"]>> ELSE <<S["Firecrawl"]>>

UnsupportedPlatformStart(q) ==
    /\ build = "part_000"
    /\ q.tool \in {"start_app", "start_firecrawl"}
    /\ InCore(q)
    /\ platform \notin SupportedPlatforms

\* The call failed and nothing else did: it was answered with success false
\* and the message of the unsupported platform, it spawned nothing, and the
\* manager goes on to its next invocation
FailsForThatCallOnly(q) ==
    /\ q.pc = "done"
    /\ ~TheValue(q.response).isError
    /\ ~TheValue(q.response).success
    /\ TheValue(q.response).message =
            Concat(<<S["Failed to start application: "],
                     S["Unsupported platform: "], platform>>)
    /\ q.children = <<>>
    /\ ENABLED Release

\* C27 as stated: on an unsupported platform, with no path override that
\* applies, a start fails for that call only.
C27_UnsupportedPlatformFailsTheCall ==
    \A r \in DOMAIN reqs :
        UnsupportedPlatformStart(reqs[r]) => FailsForThatCallOnly(reqs[r])

\* C27 as amended: that holds when NODE_ENV is not 'development'; when it
\* is, the platform is not looked at, the path is 'electron', and the start
\* spawns it.
C27_UnsupportedPlatformOutsideDevelopment ==
    \A r \in DOMAIN reqs :
        UnsupportedPlatformStart(reqs[r])
        => IF nodeEnv = "development"
           THEN /\ reqs[r].execPath = Some(S["electron"])
                /\ Len(reqs[r].children) = 1
                /\ reqs[r].children[1].command = S["electron"]
           ELSE FailsForThatCallOnly(reqs[r])

\* A start_app on freebsd, outside development, has been answered with the
\* failure of the unsupported platform and has spawned nothing
C27_Witness ==
    /\ build = "part_000"
    /\ platform = S["freebsd"]
    /\ nodeEnv # "development"
    /\ reqs[1].tool = "start_app"
    /\ reqs[1].pc = "done"
    /\ reqs[1].children = <<>>
    /\ ~TheValue(reqs[1].response).success
    /\ reqs[1].caught = S["Unsupported platform: "] \o S["freebsd"]

\* An invocation that carries no arguments object, of a tool other than the
\* two lists
WithoutArguments(q) ==
    /\ Handled(q)
    /\ ~q.hasArguments
    /\ q.tool \notin {"list_applications", "list_configured_apps"}

\* C28: an invocation without an arguments object of any tool other than
\* list_applications and list_configured_apps, the two shortcuts that take
\* no input included, is answered with the error "Arguments are required",
\* and it starts and stops nothing: it does not reach launchAppProcess,
\* startApp or stopApp, and it spawns no process.
C28_NoArgumentsObjectIsAnError ==
    \A r \in DOMAIN reqs :
        WithoutArguments(reqs[r])
        => /\ reqs[r].pc = "done"
           /\ TheValue(reqs[r].response).isError
           /\ TheValue(reqs[r].response).message =
                    S["Error: "] \o S["Arguments are required"]
           /\ reqs[r].name = <<>>
           /\ reqs[r].children = <<>>

\* A stop_firecrawl without an arguments object has been refused
C28_Witness ==
    /\ build = "part_000"
    /\ reqs[1].tool = "stop_firecrawl"
    /\ ~reqs[1].hasArguments
    /\ reqs[1].pc = "done"
    /\ TheValue(reqs[1].response).isError
    /\ reqs[1].children = <<>>

\* The invocation spawned its executable directly and awaited the window of
\* lines 150-163
DirectSpawn(q) ==
    /\ InCore(q)
    /\ Len(q.children) = 1
    /\ q.children[1].api = "spawn"
    /\ ~q.children[1].shell
    /\ ~IsPkill(q.children[1])

\* The first thing that happened to the child decides: an 'error' gives
\* failure, the timer gives success
DecidedByFirstEvent(q) ==
    /\ q.events # <<>>
    /\ q.events[1].kind \in {"error", "timer"}
    /\ ~TheValue(q.response).isError
    /\ TheValue(q.response).success <=> (q.events[1].kind = "timer")

\* An outcome that has been returned is neither changed nor followed by a
\* fault when the other of the two events arrives
DecidedOnce ==
    (DirectSpawn(reqs[1]) /\ reqs[1].pc = "done" /\ reqs'[1] # IdleReq)
    => /\ reqs'[1].pc = "done"
       /\ reqs'[1].response = reqs[1].response

\* C29: on the direct spawn the outcome is decided once, by the first of
\* the child's 'error' event and the window's timer: an 'error' after the
\* timer leaves the success that was returned and raises no fault, and a
\* timer after an 'error' leaves the failure.
C29_FirstEventDecidesOnce ==
    /\ [](DirectSpawn(reqs[1])
          => /\ reqs[1].pc # "crashed"
             /\ reqs[1].pc = "done" => DecidedByFirstEvent(reqs[1]))
    /\ [][DecidedOnce]_vars

\* A direct launch was answered with success when its timer fired, and the
\* 'error' its child emitted afterwards has left that answer
C29_Witness ==
    /\ reqs[1].tool = "start_app"
    /\ DirectSpawn(reqs[1])
    /\ reqs[1].events = <<Event(1, "timer", 0), Event(1, "error", 0)>>
    /\ reqs[1].pc = "done"
    /\ TheValue(reqs[1].response).success

\* The same stop_app handled with nothing before it, under the same events
StopFromScratch(q) ==
    Replay(Handle(Request("stop_app", TRUE, q.appName, q.args, FALSE)),
           q.events)

-----------------------------------------------------------------------------
(* Properties of the Process Registry                                       *)

\* The entries a registry holds for a key
EntriesFor(reg, name) ==
    {i \in 1..Len(reg) : toLowerCase(reg[i].key) = toLowerCase(name)}

\* The start_app of slot r answers success in this step
StartSucceeds(r) ==
    /\ reqs[r].tool = "start_app"
    /\ reqs[r].pc # "done"
    /\ reqs'[r].pc = "done"
    /\ TheValue(reqs'[r].response).success

\* C1: when a start_app answers success the registry holds exactly one
\* entry for the normalized name, and that entry carries the process id
\* of this launch (so a second successful start replaces the first one's
\* entry).
C1_StartLeavesOneEntry ==
    [][\A r \in 1..MaxInFlight :
         StartSucceeds(r)
         => /\ Cardinality(EntriesFor(registry', reqs'[r].name)) = 1
            /\ \A i \in EntriesFor(registry', reqs'[r].name) :
                  /\ registry'[i].processId = reqs'[r].pid
                  /\ registry'[i].key = toLowerCase(reqs'[r].name)]_vars

\* A start_app has answered success while a stop_app of the same
\* application, written in another case, is still terminating the launch
\* that was tracked before: the registry holds the second launch alone
C1_Witness ==
    /\ reqs[1].tool = "stop_app" /\ reqs[1].pc = "tree_kill"
    /\ reqs[1].name = S["A b"] /\ reqs[1].pid = 1
    /\ reqs[2].tool = "start_app" /\ reqs[2].pc = "done"
    /\ reqs[2].name = S["a b"] /\ reqs[2].pid = 2
    /\ TheValue(reqs[2].response).success
    /\ Len(registry) = 1
    /\ registry[1].key = S["a b"]
    /\ registry[1].processId = 2

\* C2: when the tracked termination of a stop_app ends, with success or
\* with failure, the registry holds no entry for the normalized name.
C2_TrackedStopClearsEntry ==
    [][\A r \in 1..MaxInFlight :
         (reqs[r].pc = "tree_kill" /\ reqs'[r].pc # "tree_kill")
         => EntriesFor(registry', reqs[r].name) = {}]_vars

\* A stop_app whose tracked termination failed has gone on to the
\* untracked path, and the entry is gone
C2_Witness ==
    \E r \in 1..MaxInFlight :
        /\ reqs[r].tool = "stop_app"
        /\ reqs[r].pid = 1
        /\ reqs[r].pc \in {"window", "shell_window"}
        /\ EntriesFor(registry, reqs[r].name) = {}
        /\ \A q \in 1..MaxInFlight : q # r => reqs[q].pc = "idle"

\* The elements of a sequence
Elements(seq) == {seq[i] : i \in 1..Len(seq)}

\* C3: the list a list_running_apps returns holds exactly the entries the
\* registry holds when it is called, and no process that a stop_app has
\* taken off the registry before.
C3_ListIsRegistry ==
    [][\A r \in 1..MaxInFlight :
         (reqs[r].pc = "idle" /\ reqs'[r].tool = "list_running_apps")
         => /\ Elements(TheValue(reqs'[r].response).list) =
                 {[appName |-> e.displayName, pid |-> e.processId,
                   startTime |-> e.startedAt] : e \in Elements(registry)}
            /\ \A q \in 1..MaxInFlight :
                 (reqs[q].tool = "stop_app" /\ reqs[q].pid # 0
                    /\ reqs[q].pc # "tree_kill")
                 => \A e \in Elements(TheValue(reqs'[r].response).list) :
                        e.pid # reqs[q].pid]_vars

\* A list_running_apps has listed the one tracked process while a stop_app
\* that took another one off the registry is on its untracked path
C3_Witness ==
    /\ reqs[1].tool = "stop_app" /\ reqs[1].pid = 1
    /\ reqs[1].pc \in {"window", "shell_window"}
    /\ reqs[2].tool = "list_running_apps" /\ reqs[2].pc = "done"
    /\ Len(TheValue(reqs[2].response).list) = 1
    /\ TheValue(reqs[2].response).list[1].pid = 2

\* The states a request can be in: it never leaves them, and an answered
\* request holds a response
Alive(q) ==
    /\ q.pc \in {"idle", "window", "shell_window", "pkill_window",
                 "tree_kill", "done"}
    /\ q.pc = "done" => q.response # undefined

\* C4: whatever the interleaving of the start_app and stop_app in flight,
\* the registry holds no two entries for the same normalized key and every
\* invocation is in a state of its handler or has its response.
C4_OneEntryPerKey ==
    /\ \A i, j \in 1..Len(registry) :
          i # j => toLowerCase(registry[i].key) # toLowerCase(registry[j].key)
    /\ \A r \in 1..MaxInFlight : Alive(reqs[r])

\* A start_app and a stop_app of the same application are in flight
\* together, the stop on its tracked path
C4_Witness ==
    /\ reqs[1].tool = "start_app" /\ reqs[1].pc \in {"window", "shell_window"}
    /\ reqs[1].name = S["A b"]
    /\ reqs[2].tool = "stop_app" /\ reqs[2].pc = "tree_kill"
    /\ reqs[2].name = S["a b"]
    /\ Len(registry) = 1

\* The process ids the model hands out, written in decimal
PidText == <<S["1"], S["2"], S["3"], S["4"], S["5"]>>

\* The stop_app of slot r finds a tracked entry for its key in this step
StopFindsEntry(r) ==
    /\ reqs[r].pc = "idle"
    /\ reqs'[r].tool = "stop_app"
    /\ EntriesFor(registry, reqs'[r].name) # {}

====
